---- MODULE Spec2Model ----
(***************************************************************************)
(* Endless-runner scene scripts of INFIN_BBOY_REPO.                        *)
(*                                                                         *)
(* Two scene variants are modelled:                                        *)
(*   "edge"   src/src/components/BabylonCanvas.tsx: key events drive the   *)
(*            locomotion state machine (playState / evaluateMovement /     *)
(*            triggerSlide / triggerJump);                                 *)
(*   "polled" the BabylonRunner scene kept in                              *)
(*            src/public/scene/assets/model/analyze-anim.js: every frame   *)
(*            re-evaluates the state from the held keys (setPlayerState /  *)
(*            updateMovementState).                                        *)
(* The segment recycler (advanceSegments) is modelled on its own rings.    *)
(*                                                                         *)
(* Numbers.  Positions are floats in the source; here they are exact       *)
(* fixed-point integers in thousandths of a world unit, and a frame's      *)
(* delta time is an integer number of milliseconds, so that                *)
(* speed [units/s] * dt [ms] is a distance in thousandths.                 *)
(*                                                                         *)
(* The animation engine is external.  Its modelled contract: a non-looping *)
(* playback ends once and then notifies the registered end observers /     *)
(* the end callback; a looping playback never ends; stop() cancels a       *)
(* playback without notifying anyone; an animation group without targeted  *)
(* animations does not start.                                              *)
(***************************************************************************)
EXTENDS Integers, Sequences, FiniteSets, TLC

VARIABLES
  variant,                \* which scene script is mounted: "edge" | "polled"
  keyState,               \* [forward, left, right, slide : BOOLEAN]
  playerLoad,             \* the player.glb import: "pending" | "done" | "failed"
  playerRoot,             \* playerRoot # null
  playerX,                \* playerRoot.position.x (thousandths)
  playerSkeleton,         \* playerSkeleton # null
  namedRanges,            \* the skeleton's named ranges: state -> [has, from, to]
  playerAnimationGroup,   \* playerAnimationGroup # null
  groupHasTargets,        \* the group holds at least one targeted animation
  playerAnimatable,       \* playerAnimatable # null
  animationGroupObserver, \* "null", or the continuation the handle's observer runs
  currentPlayerState,
  blockingAction,
  idleInitialized,
  lateralTarget,          \* lateralState.target (thousandths)
  activeScrollSpeed,
  groupPlaying,           \* engine: what the animation group is playing
  groupObservers,         \* engine: observers registered on the group's end observable
  skeletonPlaying,        \* engine: the skeleton animation begun by beginAnimation
  commands,               \* playback commands issued by the last handler
  lastEvent,              \* history: the last event handled, and the state before it
  held,                   \* environment, edge scene: which of W, A, D, S are down
  buildingsLoad,          \* the b1..b10 imports: "pending" | "done" | "failed"
  scrollObserver,         \* scrollObserver # null (registered on the scene)
  groundSegments,         \* z of every ground segment, in creation order (thousandths)
  buildingSegments,       \* z of every building segment, in creation order
  buildingSegmentSpacing, \* segmentSpacing of the building ring, 0 until it is known
  groundTextureOffset,    \* groundTextureState.offset * groundSegmentSpacing
  lastMovement,           \* movement of the last scroll frame (thousandths)
  frameCount,             \* scroll frames rendered so far
  mount                   \* [keyListeners, playerMotionObserver, engineDisposed]

vars == << variant, keyState, playerLoad, playerRoot, playerX, playerSkeleton,
           namedRanges, playerAnimationGroup, groupHasTargets, playerAnimatable,
           animationGroupObserver, currentPlayerState, blockingAction,
           idleInitialized, lateralTarget, activeScrollSpeed, groupPlaying,
           groupObservers, skeletonPlaying, commands, lastEvent, held,
           buildingsLoad, scrollObserver, groundSegments, buildingSegments,
           buildingSegmentSpacing, groundTextureOffset, lastMovement, frameCount,
           mount >>

sceneVars == << variant, keyState, playerLoad, playerRoot, playerX, playerSkeleton,
                namedRanges, playerAnimationGroup, groupHasTargets, playerAnimatable,
                animationGroupObserver, currentPlayerState, blockingAction,
                idleInitialized, lateralTarget, activeScrollSpeed, groupPlaying,
                groupObservers, skeletonPlaying, commands, lastEvent, held >>

scrollVars == << buildingsLoad, scrollObserver, groundSegments, buildingSegments,
                 buildingSegmentSpacing, groundTextureOffset, lastMovement,
                 frameCount, mount >>

----------------------------------------------------------------------------
(* Program constants                                                       *)

baseScrollSpeed == 102
lateralRange == 40
lateralSpeed == 40
lateralReturnSpeed == 40
\* Math.abs(diff) < 0.01, in thousandths
SnapEpsilon == 10

Milli(v) == v * 1000

PlayerState ==
  {"Idle", "Run", "Strafe_L", "Strafe_R", "Slide", "Jump", "Fall", "Getup", "Run_Idle"}

blockingStates == {"Slide", "Jump", "Fall", "Getup"}

\* mutant: the Run loop is entered with its two bounds exchanged
loopFrameRangesRunReversed(state) ==
  CASE state = "Idle"     -> << 0, 175 >>
    [] state = "Run"      -> << 217, 176 >>
    [] state = "Strafe_L" -> << 364, 403 >>
    [] state = "Strafe_R" -> << 404, 443 >>

loopFrameRanges(state) ==
  CASE state = "Idle"     -> << 0, 175 >>
    [] state = "Run"      -> << 176, 217 >>
    [] state = "Strafe_L" -> << 364, 403 >>
    [] state = "Strafe_R" -> << 404, 443 >>

buildLoopRange(state, scroll) ==
  [start |-> loopFrameRanges(state)[1], end |-> loopFrameRanges(state)[2],
   loop |-> TRUE, scroll |-> scroll]

animationRanges(state) ==
  CASE state = "Idle"     -> buildLoopRange("Idle", 0)
    [] state = "Run"      -> buildLoopRange("Run", baseScrollSpeed)
    [] state = "Slide"    -> [start |-> 218, end |-> 309, loop |-> FALSE, scroll |-> baseScrollSpeed]
    [] state = "Jump"     -> [start |-> 310, end |-> 363, loop |-> FALSE, scroll |-> baseScrollSpeed]
    [] state = "Strafe_L" -> buildLoopRange("Strafe_L", baseScrollSpeed)
    [] state = "Strafe_R" -> buildLoopRange("Strafe_R", baseScrollSpeed)
    [] state = "Run_Idle" -> [start |-> 444, end |-> 497, loop |-> FALSE, scroll |-> 0]
    [] state = "Fall"     -> [start |-> 498, end |-> 649, loop |-> FALSE, scroll |-> baseScrollSpeed]
    [] state = "Getup"    -> [start |-> 650, end |-> 1106, loop |-> FALSE, scroll |-> baseScrollSpeed]

----------------------------------------------------------------------------
(* Bounds of the model                                                     *)

\* frame delta times (ms) seen by the player motion observer
MotionDeltas == {250, 500}
\* playerRoot.position.x after the bounding-box centring at load (thousandths):
\* centred, a hair off centre, and an asset authored far off its origin
InitialXs == {0, -5, 55000}

NoNamedRanges == [s \in PlayerState |-> [has |-> FALSE, from |-> 0, to |-> 0]]
\* a skeleton whose authoring names a range for Idle and for Jump
AuthoredRanges ==
  [s \in PlayerState |->
     IF s = "Idle" THEN [has |-> TRUE, from |-> 1, to |-> 170]
     ELSE IF s = "Jump" THEN [has |-> TRUE, from |-> 312, to |-> 360]
     ELSE [has |-> FALSE, from |-> 0, to |-> 0]]

KeyCodes == {"KeyW", "KeyA", "KeyD", "KeyS", "Space",
             "ArrowUp", "ArrowLeft", "ArrowRight", "ArrowDown"}

----------------------------------------------------------------------------
(* The runtime as one record, so that a handler and the calls it makes are *)
(* one function from runtime to runtime.                                   *)

Rt ==
  [variant |-> variant, keyState |-> keyState, playerLoad |-> playerLoad,
   playerRoot |-> playerRoot, playerX |-> playerX,
   playerSkeleton |-> playerSkeleton, namedRanges |-> namedRanges,
   playerAnimationGroup |-> playerAnimationGroup,
   groupHasTargets |-> groupHasTargets,
   playerAnimatable |-> playerAnimatable,
   animationGroupObserver |-> animationGroupObserver,
   currentPlayerState |-> currentPlayerState, blockingAction |-> blockingAction,
   idleInitialized |-> idleInitialized, lateralTarget |-> lateralTarget,
   activeScrollSpeed |-> activeScrollSpeed, groupPlaying |-> groupPlaying,
   groupObservers |-> groupObservers, skeletonPlaying |-> skeletonPlaying,
   commands |-> commands]

Become(r) ==
  /\ variant' = r.variant
  /\ keyState' = r.keyState
  /\ playerLoad' = r.playerLoad
  /\ playerRoot' = r.playerRoot
  /\ playerX' = r.playerX
  /\ playerSkeleton' = r.playerSkeleton
  /\ namedRanges' = r.namedRanges
  /\ playerAnimationGroup' = r.playerAnimationGroup
  /\ groupHasTargets' = r.groupHasTargets
  /\ playerAnimatable' = r.playerAnimatable
  /\ animationGroupObserver' = r.animationGroupObserver
  /\ currentPlayerState' = r.currentPlayerState
  /\ blockingAction' = r.blockingAction
  /\ idleInitialized' = r.idleInitialized
  /\ lateralTarget' = r.lateralTarget
  /\ activeScrollSpeed' = r.activeScrollSpeed
  /\ groupPlaying' = r.groupPlaying
  /\ groupObservers' = r.groupObservers
  /\ skeletonPlaying' = r.skeletonPlaying
  /\ commands' = r.commands

\* a handler starts with an empty command log
Fresh(r) == [r EXCEPT !.commands = << >>]

NoPlayback == [state |-> "none", from |-> 0, to |-> 0, loop |-> FALSE, onEnd |-> "none"]

StartCommand(target, state, from, to, loop) ==
  [op |-> "start", target |-> target, state |-> state, from |-> from, to |-> to,
   loop |-> loop]

StopCommand(target) ==
  [op |-> "stop", target |-> target, state |-> "none", from |-> 0, to |-> 0,
   loop |-> FALSE]

\* Observable.remove(observer): the first registration of that observer
RECURSIVE RemoveObserver(_, _)
RemoveObserver(list, o) ==
  IF list = << >> THEN << >>
  ELSE IF Head(list) = o THEN Tail(list)
  ELSE << Head(list) >> \o RemoveObserver(Tail(list), o)

Abs(v) == IF v < 0 THEN -v ELSE v
Sign(v) == IF v > 0 THEN 1 ELSE IF v < 0 THEN -1 ELSE 0
Min(a, b) == IF a < b THEN a ELSE b
Max(a, b) == IF a > b THEN a ELSE b

----------------------------------------------------------------------------
(* Edge-triggered variant: BabylonCanvas.tsx                               *)

\* mutant: the skeleton's named ranges are never consulted
resolveFramesTableOnly(r, state, fallback) ==
  [start |-> fallback.start, end |-> fallback.end]

resolveFrames(r, state, fallback) ==
  IF r.playerSkeleton /\ r.namedRanges[state].has
  THEN [start |-> r.namedRanges[state].from, end |-> r.namedRanges[state].to]
  ELSE [start |-> fallback.start, end |-> fallback.end]

\* mutant: the group's end observer is forgotten but never removed
stopCurrentAnimationKeepsObserver(r) ==
  LET r1 == IF r.playerAnimatable
            THEN [r EXCEPT !.playerAnimatable = FALSE,
                           !.skeletonPlaying = NoPlayback,
                           !.commands = Append(@, StopCommand("skeleton"))]
            ELSE r
  IN  IF r1.playerAnimationGroup
      THEN [r1 EXCEPT !.animationGroupObserver = "null",
                      !.groupPlaying = NoPlayback,
                      !.commands = Append(@, StopCommand("group"))]
      ELSE r1

stopCurrentAnimation(r) ==
  LET r1 == IF r.playerAnimatable
            THEN [r EXCEPT !.playerAnimatable = FALSE,
                           !.skeletonPlaying = NoPlayback,
                           !.commands = Append(@, StopCommand("skeleton"))]
            ELSE r
      r2 == IF r1.animationGroupObserver # "null"
            THEN [r1 EXCEPT !.groupObservers =
                               RemoveObserver(@, r1.animationGroupObserver),
                            !.animationGroupObserver = "null"]
            ELSE r1
  IN  IF r1.playerAnimationGroup
      THEN [r2 EXCEPT !.groupPlaying = NoPlayback,
                      !.commands = Append(@, StopCommand("group"))]
      ELSE r1

\* mutant: the scroll speed is left as it was
setScrollForStateKept(r, state) == r

setScrollForState(r, state) ==
  [r EXCEPT !.activeScrollSpeed = animationRanges(state).scroll]

\* playerAnimationGroup.start(loop, 1, start, end) and, for a non-looping
\* range, the registration of the end observer that runs handleEnd
StartGroup(r, state, frames, loop, onComplete) ==
  LET r1 == [r EXCEPT
               !.groupPlaying =
                  IF r.groupHasTargets
                  THEN [state |-> state, from |-> frames.start, to |-> frames.end,
                        loop |-> loop, onEnd |-> "none"]
                  ELSE @,
               !.commands = Append(@, StartCommand("group", state, frames.start,
                                                   frames.end, loop))]
  IN  IF loop THEN r1
      ELSE [r1 EXCEPT !.groupObservers = Append(@, onComplete),
                      !.animationGroupObserver = onComplete]

\* scene.beginAnimation(playerSkeleton, start, end, loop, 1, () => handleEnd())
StartSkeleton(r, state, frames, loop, onComplete) ==
  [r EXCEPT !.playerAnimatable = TRUE,
            !.skeletonPlaying = [state |-> state, from |-> frames.start,
                                 to |-> frames.end, loop |-> loop,
                                 onEnd |-> onComplete],
            !.commands = Append(@, StartCommand("skeleton", state, frames.start,
                                                frames.end, loop))]

\* mutant: the scroll speed of the requested state is applied before the
\* check for an animation source
playStateScrollFirst(r, state, onComplete) ==
  LET range  == animationRanges(state)
      frames == resolveFrames(r, state, range)
  IN  IF ~(r.playerAnimationGroup \/ r.playerSkeleton)
      THEN setScrollForState(r, state)
      ELSE IF r.currentPlayerState = state /\ range.loop
      THEN setScrollForState(r, state)
      ELSE
        LET r0 == stopCurrentAnimation(r)
            shouldBlock == ~range.loop /\ state \in blockingStates
            r1 == IF r0.playerAnimationGroup
                  THEN StartGroup(r0, state, frames, range.loop, onComplete)
                  ELSE StartSkeleton(r0, state, frames, range.loop, onComplete)
        IN  [setScrollForState(r1, state) EXCEPT
               !.currentPlayerState = state,
               !.blockingAction = shouldBlock]

\* mutant: every non-looping state blocks, Run_Idle included
playStateBlocksNonLooping(r, state, onComplete) ==
  LET range  == animationRanges(state)
      frames == resolveFrames(r, state, range)
  IN  IF ~(r.playerAnimationGroup \/ r.playerSkeleton) THEN r
      ELSE IF r.currentPlayerState = state /\ range.loop
      THEN setScrollForState(r, state)
      ELSE
        LET r0 == stopCurrentAnimation(r)
            shouldBlock == ~range.loop
            r1 == IF r0.playerAnimationGroup
                  THEN StartGroup(r0, state, frames, range.loop, onComplete)
                  ELSE StartSkeleton(r0, state, frames, range.loop, onComplete)
        IN  [setScrollForState(r1, state) EXCEPT
               !.currentPlayerState = state,
               !.blockingAction = shouldBlock]

\* mutant: without an animation source the requested state is still recorded
playStateBookkeeping(r, state, onComplete) ==
  LET range  == animationRanges(state)
      frames == resolveFrames(r, state, range)
  IN  IF ~(r.playerAnimationGroup \/ r.playerSkeleton)
      THEN [r EXCEPT !.currentPlayerState = state]
      ELSE IF r.currentPlayerState = state /\ range.loop
      THEN setScrollForState(r, state)
      ELSE
        LET r0 == stopCurrentAnimation(r)
            shouldBlock == ~range.loop /\ state \in blockingStates
            r1 == IF r0.playerAnimationGroup
                  THEN StartGroup(r0, state, frames, range.loop, onComplete)
                  ELSE StartSkeleton(r0, state, frames, range.loop, onComplete)
        IN  [setScrollForState(r1, state) EXCEPT
               !.currentPlayerState = state,
               !.blockingAction = shouldBlock]

\* mutant: no shortcut for re-entering the same looping state
playStateAlwaysRestarts(r, state, onComplete) ==
  LET range  == animationRanges(state)
      frames == resolveFrames(r, state, range)
  IN  IF ~(r.playerAnimationGroup \/ r.playerSkeleton) THEN r
      ELSE
        LET r0 == stopCurrentAnimation(r)
            shouldBlock == ~range.loop /\ state \in blockingStates
            r1 == IF r0.playerAnimationGroup
                  THEN StartGroup(r0, state, frames, range.loop, onComplete)
                  ELSE StartSkeleton(r0, state, frames, range.loop, onComplete)
        IN  [setScrollForState(r1, state) EXCEPT
               !.currentPlayerState = state,
               !.blockingAction = shouldBlock]

\* onComplete names the continuation passed in options.onComplete:
\*   "none" | "playIdle" | "slideDone" | "playFall" | "playGetup" | "evaluate"
playState(r, state, onComplete) ==
  LET range  == animationRanges(state)
      frames == resolveFrames(r, state, range)
  IN  IF ~(r.playerAnimationGroup \/ r.playerSkeleton) THEN r
      ELSE IF r.currentPlayerState = state /\ range.loop
      THEN setScrollForState(r, state)
      ELSE
        LET r0 == stopCurrentAnimation(r)
            shouldBlock == ~range.loop /\ state \in blockingStates
            r1 == IF r0.playerAnimationGroup
                  THEN StartGroup(r0, state, frames, range.loop, onComplete)
                  ELSE StartSkeleton(r0, state, frames, range.loop, onComplete)
        IN  [setScrollForState(r1, state) EXCEPT
               !.currentPlayerState = state,
               !.blockingAction = shouldBlock]

\* mutant: the lateral target is stored as given
setLateralTargetUnclamped(r, value) ==
  [r EXCEPT !.lateralTarget = value]

setLateralTarget(r, value) ==
  [r EXCEPT !.lateralTarget =
     Max(-Milli(lateralRange), Min(Milli(lateralRange), value))]

ensureIdle(r) ==
  IF r.idleInitialized THEN r
  ELSE IF r.playerAnimationGroup \/ r.playerSkeleton
  THEN playState([r EXCEPT !.idleInitialized = TRUE], "Idle", "none")
  ELSE r

\* mutant: Run_Idle is played without the continuation that starts Idle
transitionToIdleNoFollowUp(r) ==
  IF r.blockingAction THEN r
  ELSE IF r.currentPlayerState = "Idle" THEN playState(r, "Idle", "none")
  ELSE IF r.currentPlayerState = "Run_Idle" THEN r
  ELSE playState(r, "Run_Idle", "none")

transitionToIdle(r) ==
  IF r.blockingAction THEN r
  ELSE IF r.currentPlayerState = "Idle" THEN playState(r, "Idle", "none")
  ELSE IF r.currentPlayerState = "Run_Idle" THEN r
  ELSE playState(r, "Run_Idle", "playIdle")

\* playerRoot ? playerRoot.position.x : 0
RootX(r) == IF r.playerRoot THEN r.playerX ELSE 0

\* mutant: the fallback branch starts Idle at once, without the Run_Idle clip
evaluateMovementIdleDirect(r) ==
  IF r.blockingAction THEN r
  ELSE IF r.keyState.left /\ ~r.keyState.right
  THEN playState(setLateralTarget(r, Milli(lateralRange)), "Strafe_R", "none")
  ELSE IF r.keyState.right /\ ~r.keyState.left
  THEN playState(setLateralTarget(r, -Milli(lateralRange)), "Strafe_L", "none")
  ELSE IF r.keyState.forward
  THEN playState(setLateralTarget(r, RootX(r)), "Run", "none")
  ELSE playState(setLateralTarget(r, RootX(r)), "Idle", "none")

\* mutant: the fallback branch recentres the lateral target on 0
evaluateMovementRecentre(r) ==
  IF r.blockingAction THEN r
  ELSE IF r.keyState.left /\ ~r.keyState.right
  THEN playState(setLateralTarget(r, Milli(lateralRange)), "Strafe_R", "none")
  ELSE IF r.keyState.right /\ ~r.keyState.left
  THEN playState(setLateralTarget(r, -Milli(lateralRange)), "Strafe_L", "none")
  ELSE IF r.keyState.forward
  THEN playState(setLateralTarget(r, RootX(r)), "Run", "none")
  ELSE transitionToIdle(setLateralTarget(r, 0))

\* mutant: each strafe key plays the clip named after it
evaluateMovementNamedClips(r) ==
  IF r.blockingAction THEN r
  ELSE IF r.keyState.left /\ ~r.keyState.right
  THEN playState(setLateralTarget(r, Milli(lateralRange)), "Strafe_L", "none")
  ELSE IF r.keyState.right /\ ~r.keyState.left
  THEN playState(setLateralTarget(r, -Milli(lateralRange)), "Strafe_R", "none")
  ELSE IF r.keyState.forward
  THEN playState(setLateralTarget(r, RootX(r)), "Run", "none")
  ELSE transitionToIdle(setLateralTarget(r, RootX(r)))

\* mutant: the lateral target is chosen before blockingAction is looked at
evaluateMovementTargetFirst(r) ==
  LET r1 == IF r.keyState.left /\ ~r.keyState.right
            THEN setLateralTarget(r, Milli(lateralRange))
            ELSE IF r.keyState.right /\ ~r.keyState.left
            THEN setLateralTarget(r, -Milli(lateralRange))
            ELSE setLateralTarget(r, RootX(r))
  IN  IF r.blockingAction THEN r1
      ELSE IF r.keyState.left /\ ~r.keyState.right
      THEN playState(r1, "Strafe_R", "none")
      ELSE IF r.keyState.right /\ ~r.keyState.left
      THEN playState(r1, "Strafe_L", "none")
      ELSE IF r.keyState.forward THEN playState(r1, "Run", "none")
      ELSE transitionToIdle(r1)

evaluateMovement(r) ==
  IF r.blockingAction THEN r
  ELSE IF r.keyState.left /\ ~r.keyState.right
  THEN playState(setLateralTarget(r, Milli(lateralRange)), "Strafe_R", "none")
  ELSE IF r.keyState.right /\ ~r.keyState.left
  THEN playState(setLateralTarget(r, -Milli(lateralRange)), "Strafe_L", "none")
  ELSE IF r.keyState.forward
  THEN playState(setLateralTarget(r, RootX(r)), "Run", "none")
  ELSE transitionToIdle(setLateralTarget(r, RootX(r)))

\* mutant: the slide trigger leaves the lateral target where it was
triggerSlideKeepsTarget(r) ==
  IF r.blockingAction THEN r
  ELSE playState(r, "Slide", "slideDone")

triggerSlide(r) ==
  IF r.blockingAction THEN r
  ELSE playState(setLateralTarget(r, RootX(r)), "Slide", "slideDone")

\* mutant: the jump trigger does not look at blockingAction
triggerJumpUnguarded(r) ==
  playState(setLateralTarget(r, RootX(r)), "Jump", "playFall")

triggerJump(r) ==
  IF r.blockingAction THEN r
  ELSE playState(setLateralTarget(r, RootX(r)), "Jump", "playFall")

\* mutant: Jump's continuation starts Getup, leaving Fall out
runOnCompleteSkipFall(r, onComplete) ==
  CASE onComplete = "playIdle"  -> playState(r, "Idle", "none")
    [] onComplete = "slideDone" ->
         evaluateMovement([r EXCEPT !.keyState.slide = FALSE])
    [] onComplete = "playFall"  -> playState(r, "Getup", "evaluate")
    [] onComplete = "playGetup" -> playState(r, "Getup", "evaluate")
    [] onComplete = "evaluate"  -> evaluateMovement(r)
    [] OTHER -> r

\* mutant: the slide continuation goes to Run whatever is held
runOnCompleteSlideRuns(r, onComplete) ==
  CASE onComplete = "playIdle"  -> playState(r, "Idle", "none")
    [] onComplete = "slideDone" ->
         playState([r EXCEPT !.keyState.slide = FALSE], "Run", "none")
    [] onComplete = "playFall"  -> playState(r, "Fall", "playGetup")
    [] onComplete = "playGetup" -> playState(r, "Getup", "evaluate")
    [] onComplete = "evaluate"  -> evaluateMovement(r)
    [] OTHER -> r

\* mutant: the slide continuation leaves keyState.slide alone
runOnCompleteKeepsSlide(r, onComplete) ==
  CASE onComplete = "playIdle"  -> playState(r, "Idle", "none")
    [] onComplete = "slideDone" -> evaluateMovement(r)
    [] onComplete = "playFall"  -> playState(r, "Fall", "playGetup")
    [] onComplete = "playGetup" -> playState(r, "Getup", "evaluate")
    [] onComplete = "evaluate"  -> evaluateMovement(r)
    [] OTHER -> r

\* the continuations handed to playState as options.onComplete
runOnComplete(r, onComplete) ==
  CASE onComplete = "playIdle"  -> playState(r, "Idle", "none")
    [] onComplete = "slideDone" ->
         evaluateMovement([r EXCEPT !.keyState.slide = FALSE])
    [] onComplete = "playFall"  -> playState(r, "Fall", "playGetup")
    [] onComplete = "playGetup" -> playState(r, "Getup", "evaluate")
    [] onComplete = "evaluate"  -> evaluateMovement(r)
    [] OTHER -> r

handleEnd(r, onComplete) ==
  runOnComplete([r EXCEPT !.blockingAction = FALSE], onComplete)

\* the observer added to onAnimationGroupEndObservable in playState
groupEndObserver(r, onComplete) ==
  LET r1 == IF r.animationGroupObserver # "null"
            THEN [r EXCEPT !.groupObservers =
                              RemoveObserver(@, r.animationGroupObserver),
                           !.animationGroupObserver = "null"]
            ELSE r
  IN  handleEnd(r1, onComplete)

\* mutant: the player closes half of the remaining distance in every frame
updatePlayerLateralPositionEased(r, dt) ==
  IF ~r.playerRoot THEN r
  ELSE
    LET target == r.lateralTarget
        currentX == r.playerX
        diff == target - currentX
        step == Sign(diff) * Min((Abs(diff) + 1) \div 2, Abs(diff))
    IN  IF Abs(diff) < SnapEpsilon THEN [r EXCEPT !.playerX = target]
        ELSE [r EXCEPT !.playerX =
                Max(-Milli(lateralRange), Min(Milli(lateralRange), currentX + step))]

\* mutant: the step is speed * dt whatever distance is left
updatePlayerLateralPositionOvershoots(r, dt) ==
  IF ~r.playerRoot THEN r
  ELSE
    LET target == r.lateralTarget
        currentX == r.playerX
        diff == target - currentX
        speed == IF target = 0 THEN lateralReturnSpeed ELSE lateralSpeed
        step == Sign(diff) * speed * dt
    IN  IF Abs(diff) < SnapEpsilon THEN [r EXCEPT !.playerX = target]
        ELSE [r EXCEPT !.playerX =
                Max(-Milli(lateralRange), Min(Milli(lateralRange), currentX + step))]

\* mutant: the position follows the target whether or not a root is loaded
updatePlayerLateralPositionRootless(r, dt) ==
  LET target == r.lateralTarget
      currentX == r.playerX
      diff == target - currentX
      speed == IF target = 0 THEN lateralReturnSpeed ELSE lateralSpeed
      step == Sign(diff) * Min(Abs(diff), speed * dt)
  IN  IF Abs(diff) < SnapEpsilon THEN [r EXCEPT !.playerX = target]
      ELSE [r EXCEPT !.playerX =
              Max(-Milli(lateralRange), Min(Milli(lateralRange), currentX + step))]

updatePlayerLateralPosition(r, dt) ==
  IF ~r.playerRoot THEN r
  ELSE
    LET target == r.lateralTarget
        currentX == r.playerX
        diff == target - currentX
        speed == IF target = 0 THEN lateralReturnSpeed ELSE lateralSpeed
        step == Sign(diff) * Min(Abs(diff), speed * dt)
    IN  IF Abs(diff) < SnapEpsilon THEN [r EXCEPT !.playerX = target]
        ELSE [r EXCEPT !.playerX =
                Max(-Milli(lateralRange), Min(Milli(lateralRange), currentX + step))]

\* mutant: every keydown of W, A or D evaluates, held already or not
handleKeyDownAlwaysEvaluates(r, code) ==
  CASE code = "KeyW" -> evaluateMovement([r EXCEPT !.keyState.forward = TRUE])
    [] code = "KeyA" -> evaluateMovement([r EXCEPT !.keyState.left = TRUE])
    [] code = "KeyD" -> evaluateMovement([r EXCEPT !.keyState.right = TRUE])
    [] code = "KeyS" ->
         IF ~r.keyState.slide
         THEN triggerSlide([r EXCEPT !.keyState.slide = TRUE]) ELSE r
    [] code = "Space" -> triggerJump(r)
    [] OTHER -> r

\* mutant: the arrow keys are mapped like W, A, D and S
handleKeyDownWithArrows(r, code) ==
  CASE code \in {"KeyW", "ArrowUp"} ->
         IF ~r.keyState.forward
         THEN evaluateMovement([r EXCEPT !.keyState.forward = TRUE]) ELSE r
    [] code \in {"KeyA", "ArrowLeft"} ->
         IF ~r.keyState.left
         THEN evaluateMovement([r EXCEPT !.keyState.left = TRUE]) ELSE r
    [] code \in {"KeyD", "ArrowRight"} ->
         IF ~r.keyState.right
         THEN evaluateMovement([r EXCEPT !.keyState.right = TRUE]) ELSE r
    [] code \in {"KeyS", "ArrowDown"} ->
         IF ~r.keyState.slide
         THEN triggerSlide([r EXCEPT !.keyState.slide = TRUE]) ELSE r
    [] code = "Space" -> triggerJump(r)
    [] OTHER -> r

handleKeyDown(r, code) ==
  CASE code = "KeyW" ->
         IF ~r.keyState.forward
         THEN evaluateMovement([r EXCEPT !.keyState.forward = TRUE]) ELSE r
    [] code = "KeyA" ->
         IF ~r.keyState.left
         THEN evaluateMovement([r EXCEPT !.keyState.left = TRUE]) ELSE r
    [] code = "KeyD" ->
         IF ~r.keyState.right
         THEN evaluateMovement([r EXCEPT !.keyState.right = TRUE]) ELSE r
    [] code = "KeyS" ->
         IF ~r.keyState.slide
         THEN triggerSlide([r EXCEPT !.keyState.slide = TRUE]) ELSE r
    [] code = "Space" -> triggerJump(r)
    [] OTHER -> r

\* mutant: key releases are dropped while a blocking action is in flight
handleKeyUpDroppedWhileBlocking(r, code) ==
  IF r.blockingAction THEN r
  ELSE
    CASE code = "KeyW" ->
           IF r.keyState.forward
           THEN evaluateMovement([r EXCEPT !.keyState.forward = FALSE]) ELSE r
      [] code = "KeyA" ->
           IF r.keyState.left
           THEN evaluateMovement([r EXCEPT !.keyState.left = FALSE]) ELSE r
      [] code = "KeyD" ->
           IF r.keyState.right
           THEN evaluateMovement([r EXCEPT !.keyState.right = FALSE]) ELSE r
      [] code = "KeyS" -> [r EXCEPT !.keyState.slide = FALSE]
      [] OTHER -> r

handleKeyUp(r, code) ==
  CASE code = "KeyW" ->
         IF r.keyState.forward
         THEN evaluateMovement([r EXCEPT !.keyState.forward = FALSE]) ELSE r
    [] code = "KeyA" ->
         IF r.keyState.left
         THEN evaluateMovement([r EXCEPT !.keyState.left = FALSE]) ELSE r
    [] code = "KeyD" ->
         IF r.keyState.right
         THEN evaluateMovement([r EXCEPT !.keyState.right = FALSE]) ELSE r
    [] code = "KeyS" -> [r EXCEPT !.keyState.slide = FALSE]
    [] OTHER -> r

\* engine.runRenderLoop callback: ensureIdle(), then scene.render() runs the
\* player motion observer (updatePlayerLateralPosition, ensureIdle)
renderFrame(r, dt) ==
  ensureIdle(updatePlayerLateralPosition(ensureIdle(r), dt))

\* ImportMesh success callback for player.glb with at least one mesh
playerLoaded(r, skeleton, ranges, group, targets, x0) ==
  ensureIdle([r EXCEPT !.playerLoad = "done",
                       !.playerRoot = TRUE,
                       !.playerX = x0,
                       !.playerSkeleton = skeleton,
                       !.namedRanges = ranges,
                       !.playerAnimationGroup = group,
                       !.groupHasTargets = targets])

----------------------------------------------------------------------------
(* Polled variant: the BabylonRunner scene of analyze-anim.js              *)

\* mutant: the animatable is stopped but its handle is kept
stopCurrentAnimationRunnerKeepsHandle(r) ==
  LET r1 == IF r.playerAnimatable
            THEN [r EXCEPT !.groupPlaying = NoPlayback,
                           !.commands = Append(@, StopCommand("animatable"))]
            ELSE r
  IN  IF r1.animationGroupObserver # "null" /\ r1.playerAnimationGroup
      THEN [r1 EXCEPT !.groupObservers =
                         RemoveObserver(@, r1.animationGroupObserver),
                      !.animationGroupObserver = "null"]
      ELSE r1

stopCurrentAnimationRunner(r) ==
  LET r1 == IF r.playerAnimatable
            THEN [r EXCEPT !.playerAnimatable = FALSE,
                           !.groupPlaying = NoPlayback,
                           !.commands = Append(@, StopCommand("animatable"))]
            ELSE r
  IN  IF r1.animationGroupObserver # "null" /\ r1.playerAnimationGroup
      THEN [r1 EXCEPT !.groupObservers =
                         RemoveObserver(@, r1.animationGroupObserver),
                      !.animationGroupObserver = "null"]
      ELSE r1

\* playerAnimationGroup.start(loop, 1, start, end, additive);
\* playerAnimatable = playerAnimationGroup.animatables[0] || null
StartGroupRunner(r, state, frames, loop) ==
  [r EXCEPT !.groupPlaying =
               IF r.groupHasTargets
               THEN [state |-> state, from |-> frames.start, to |-> frames.end,
                     loop |-> loop, onEnd |-> "none"]
               ELSE @,
            !.playerAnimatable = r.groupHasTargets,
            !.commands = Append(@, StartCommand("group", state, frames.start,
                                                frames.end, loop))]

\* the observer a non-looping state registers is named by that state
setPlayerState(r, nextState, force) ==
  IF ~force /\ r.currentPlayerState = nextState THEN r
  ELSE IF ~force /\ r.currentPlayerState \in blockingStates THEN r
  ELSE
    LET r1 == [r EXCEPT !.blockingAction = (nextState \in blockingStates)]
        targetRange == resolveFrames(r1, nextState, animationRanges(nextState))
        config == animationRanges(nextState)
    IN  IF ~r1.playerAnimationGroup \/ ~r1.playerSkeleton
        THEN [r1 EXCEPT !.currentPlayerState = nextState]
        ELSE
          LET r2 == StartGroupRunner(stopCurrentAnimationRunner(r1), nextState,
                                     targetRange, FALSE)
          IN  IF ~r2.playerAnimatable
              THEN [r2 EXCEPT !.currentPlayerState = nextState]
              ELSE
                LET r3 == IF config.loop
                          THEN [r2 EXCEPT !.groupPlaying.loop = TRUE]
                          ELSE [r2 EXCEPT !.groupObservers = Append(@, nextState),
                                          !.animationGroupObserver = nextState]
                IN  [r3 EXCEPT !.activeScrollSpeed = config.scroll,
                               !.currentPlayerState = nextState]

\* the observer added to onAnimationEndObservable by setPlayerState(nextState)
runnerEndObserver(r, nextState) ==
  LET r1 == [r EXCEPT !.blockingAction = FALSE]
  IN  IF nextState \in {"Slide", "Jump"} THEN setPlayerState(r1, "Run", TRUE)
      ELSE IF nextState = "Getup" THEN setPlayerState(r1, "Idle", TRUE)
      ELSE IF nextState = "Run_Idle" THEN setPlayerState(r1, "Idle", TRUE)
      ELSE r1

ensureIdleRunner(r) ==
  IF ~r.playerAnimationGroup \/ r.idleInitialized THEN r
  ELSE [StartGroupRunner(r, "Idle",
                         resolveFrames(r, "Idle", animationRanges("Idle")), TRUE)
          EXCEPT !.idleInitialized = TRUE]

handleKeyDownRunner(r, code) ==
  CASE code \in {"ArrowUp", "KeyW"}    -> [r EXCEPT !.keyState.forward = TRUE]
    [] code \in {"ArrowLeft", "KeyA"}  -> [r EXCEPT !.keyState.left = TRUE]
    [] code \in {"ArrowRight", "KeyD"} -> [r EXCEPT !.keyState.right = TRUE]
    [] code \in {"ArrowDown", "KeyS"}  -> [r EXCEPT !.keyState.slide = TRUE]
    [] OTHER -> r

handleKeyUpRunner(r, code) ==
  CASE code \in {"ArrowUp", "KeyW"}    -> [r EXCEPT !.keyState.forward = FALSE]
    [] code \in {"ArrowLeft", "KeyA"}  -> [r EXCEPT !.keyState.left = FALSE]
    [] code \in {"ArrowRight", "KeyD"} -> [r EXCEPT !.keyState.right = FALSE]
    [] code \in {"ArrowDown", "KeyS"}  -> [r EXCEPT !.keyState.slide = FALSE]
    [] OTHER -> r

updateMovementState(r) ==
  IF ~r.playerRoot THEN r
  ELSE
    LET moveLeft == r.keyState.left /\ ~r.keyState.right
        moveRight == r.keyState.right /\ ~r.keyState.left
        shouldSlide == r.keyState.slide
        shouldRun == r.keyState.forward \/ r.blockingAction
    IN  IF shouldSlide THEN setPlayerState(r, "Slide", FALSE)
        ELSE IF moveLeft THEN setPlayerState(r, "Strafe_L", FALSE)
        ELSE IF moveRight THEN setPlayerState(r, "Strafe_R", FALSE)
        ELSE IF shouldRun THEN setPlayerState(r, "Run", FALSE)
        ELSE setPlayerState(r, "Idle", FALSE)

lateralClamp(value) == Max(-Milli(lateralRange), Min(Milli(lateralRange), value))

\* the player motion observer of the polled scene
playerMotionRunner(r, dt) ==
  LET r1 == updateMovementState(r)
  IN  IF ~r1.playerRoot THEN r1
      ELSE
        LET target == r1.lateralTarget
            adjustment == Sign(-target) * lateralReturnSpeed * dt
            newTarget ==
              IF r1.keyState.left /\ ~r1.keyState.right
              THEN lateralClamp(target - lateralSpeed * dt)
              ELSE IF r1.keyState.right /\ ~r1.keyState.left
              THEN lateralClamp(target + lateralSpeed * dt)
              ELSE IF Abs(adjustment) > Abs(target) THEN 0
              ELSE target + adjustment
        IN  [r1 EXCEPT !.lateralTarget = newTarget, !.playerX = newTarget]

\* engine.runRenderLoop callback: ensureIdle(), then scene.render()
renderFrameRunner(r, dt) == playerMotionRunner(ensureIdleRunner(r), dt)

playerLoadedRunner(r, skeleton, ranges, group, targets, x0) ==
  ensureIdleRunner([r EXCEPT !.playerLoad = "done",
                             !.playerRoot = TRUE,
                             !.playerX = x0,
                             !.playerSkeleton = skeleton,
                             !.namedRanges = ranges,
                             !.playerAnimationGroup = group,
                             !.groupHasTargets = targets])

\* stopCurrentAnimation of the mounted scene
StopOnce(r) ==
  IF r.variant = "edge" THEN stopCurrentAnimation(r)
  ELSE stopCurrentAnimationRunner(r)

----------------------------------------------------------------------------
(* The engine's end notification                                           *)

observerCallback(r, o) ==
  IF r.variant = "edge" THEN groupEndObserver(r, o) ELSE runnerEndObserver(r, o)

\* notifyObservers: every observer of the list as it was when the playback
\* ended, in registration order, unless a callback has removed it meanwhile
RECURSIVE notifyObservers(_, _)
notifyObservers(r, snapshot) ==
  IF snapshot = << >> THEN r
  ELSE IF \E i \in 1..Len(r.groupObservers) : r.groupObservers[i] = Head(snapshot)
  THEN notifyObservers(observerCallback(r, Head(snapshot)), Tail(snapshot))
  ELSE notifyObservers(r, Tail(snapshot))

groupEnded(r) ==
  notifyObservers([r EXCEPT !.groupPlaying = NoPlayback], r.groupObservers)

skeletonEnded(r) ==
  handleEnd([r EXCEPT !.skeletonPlaying = NoPlayback], r.skeletonPlaying.onEnd)

----------------------------------------------------------------------------
(* Scroll / segment recycler                                               *)

\* groundDimensions.height and environmentScale of BabylonCanvas.tsx
groundHeight == 340
environmentScale == 8
\* groundBaseOffset.z of BabylonCanvas.tsx
groundBaseOffsetZ == 30
groundSegmentCountCanvas == 3
\* groundSegmentLength and groundSegmentCount of the polled scene
groundSegmentLength == 160
groundSegmentCountRunner == 8
\* segmentCount of the building ring (includeClonedSegments is true)
buildingSegmentCount == 6
overlapCompensation == 1
minSegmentSpacing == 10

groundSegmentSpacing(v) ==
  IF v = "edge" THEN Milli(groundHeight * environmentScale)
  ELSE Milli(groundSegmentLength)

\* mutant: the ground ring of either scene starts at the origin
createGroundSegmentsAtOrigin(v) ==
  IF v = "edge"
  THEN [i \in 1..groundSegmentCountCanvas |-> -(i - 1) * groundSegmentSpacing(v)]
  ELSE [i \in 1..groundSegmentCountRunner |-> -(i - 1) * groundSegmentSpacing(v)]

\* createGroundSegment(i) for i = 0 .. groundSegmentCount - 1
createGroundSegments(v) ==
  IF v = "edge"
  THEN [i \in 1..groundSegmentCountCanvas |->
          Milli(groundBaseOffsetZ) - (i - 1) * groundSegmentSpacing(v)]
  ELSE [i \in 1..groundSegmentCountRunner |-> -(i - 1) * groundSegmentSpacing(v)]

\* segmentSpacing = Math.max(rawSpacing - overlapCompensation, 10)
buildingSpacingFor(rawSpacing) ==
  Max(rawSpacing - Milli(overlapCompensation), Milli(minSegmentSpacing))

\* registerBuildingSegment(root, i) for i = 0 .. segmentCount - 1
createBuildingSegments(spacing) ==
  [i \in 1..buildingSegmentCount |-> -(i - 1) * spacing]

RECURSIVE MinOf(_)
MinOf(zs) ==
  IF Len(zs) = 1 THEN zs[1] ELSE Min(zs[1], MinOf(Tail(zs)))

advanceSegments(segs, spacing, movement) ==
  IF Len(segs) = 0 THEN segs
  ELSE
    LET moved == [i \in 1..Len(segs) |-> segs[i] + movement]
        minZ == MinOf(moved)
    IN  [i \in 1..Len(segs) |->
           IF moved[i] > spacing THEN minZ - spacing ELSE moved[i]]

\* groundTextureState.offset += movement / spacing; offset %= 1
\* (the offset is kept multiplied by the spacing)
advanceTexture(offset, spacing, movement) == (offset + movement) % spacing

----------------------------------------------------------------------------
(* Bounds of the scroll model                                              *)

\* frame delta times (ms) seen by the scroll observer: a slow frame, a long
\* stall, and a tab left in the background
ScrollDeltas == {250, 2000, 30000}
\* measured depth of one building group, |max.z - min.z| (thousandths)
BuildingRawSpacings == {11000, 161000}
MaxFrames == 4

----------------------------------------------------------------------------
(* Initial states                                                          *)

\* the effect has run: listeners and the motion observer are registered
Mounted ==
  [keyListeners |-> TRUE, playerMotionObserver |-> TRUE, engineDisposed |-> FALSE]

\* the effect's cleanup has run
Unmounted ==
  [keyListeners |-> FALSE, playerMotionObserver |-> FALSE, engineDisposed |-> TRUE]

NoKeys == [forward |-> FALSE, left |-> FALSE, right |-> FALSE, slide |-> FALSE]

InitScene ==
  /\ variant \in {"edge", "polled"}
  /\ keyState = NoKeys
  /\ playerLoad = "pending"
  /\ playerRoot = FALSE
  /\ playerX = 0
  /\ playerSkeleton = FALSE
  /\ namedRanges = NoNamedRanges
  /\ playerAnimationGroup = FALSE
  /\ groupHasTargets = FALSE
  /\ playerAnimatable = FALSE
  /\ animationGroupObserver = "null"
  /\ currentPlayerState = "Idle"
  /\ blockingAction = FALSE
  /\ idleInitialized = FALSE
  /\ lateralTarget = 0
  /\ activeScrollSpeed = 0
  /\ groupPlaying = NoPlayback
  /\ groupObservers = << >>
  /\ skeletonPlaying = NoPlayback
  /\ commands = << >>
  /\ lastEvent = [kind |-> "init", was |-> "Idle"]
  /\ held = NoKeys

\* the polled scene registers its scroll observer at setup, the edge scene
\* only once the building assets are in
InitScroll ==
  /\ buildingsLoad = "pending"
  /\ scrollObserver = (variant = "polled")
  /\ groundSegments = createGroundSegments(variant)
  /\ buildingSegments = << >>
  /\ buildingSegmentSpacing = 0
  /\ groundTextureOffset = 0
  /\ lastMovement = 0
  /\ frameCount = 0
  /\ mount = Mounted

Init == InitScene /\ InitScroll

----------------------------------------------------------------------------
(* Actions of the scene: keyboard, frames, asset load, animation ends      *)

Event(kind) == [kind |-> kind, was |-> currentPlayerState]

\* the keys of the keyboard that the edge scene's held-flags are named after;
\* a key goes down (and repeats its keydown while it stays down) and comes up
\* again.  The polled scene maps two keys to every flag; its keys are not
\* tracked.
Pressed(h, code) ==
  CASE code = "KeyW" -> [h EXCEPT !.forward = TRUE]
    [] code = "KeyA" -> [h EXCEPT !.left = TRUE]
    [] code = "KeyD" -> [h EXCEPT !.right = TRUE]
    [] code = "KeyS" -> [h EXCEPT !.slide = TRUE]
    [] OTHER -> h

Released(h, code) ==
  CASE code = "KeyW" -> [h EXCEPT !.forward = FALSE]
    [] code = "KeyA" -> [h EXCEPT !.left = FALSE]
    [] code = "KeyD" -> [h EXCEPT !.right = FALSE]
    [] code = "KeyS" -> [h EXCEPT !.slide = FALSE]
    [] OTHER -> h

KeyDown ==
  /\ mount.keyListeners
  /\ \E code \in KeyCodes :
       /\ Become(IF variant = "edge" THEN handleKeyDown(Fresh(Rt), code)
                 ELSE handleKeyDownRunner(Fresh(Rt), code))
       /\ lastEvent' = Event("keydown")
       /\ held' = IF variant = "edge" THEN Pressed(held, code) ELSE held
  /\ UNCHANGED scrollVars

KeyUp ==
  /\ mount.keyListeners
  /\ \E code \in KeyCodes :
       /\ Become(IF variant = "edge" THEN handleKeyUp(Fresh(Rt), code)
                 ELSE handleKeyUpRunner(Fresh(Rt), code))
       /\ lastEvent' = Event("keyup")
       /\ held' = IF variant = "edge" THEN Released(held, code) ELSE held
  /\ UNCHANGED scrollVars

RenderFrame ==
  /\ ~mount.engineDisposed
  /\ \E dt \in MotionDeltas :
       Become(IF variant = "edge" THEN renderFrame(Fresh(Rt), dt)
              ELSE renderFrameRunner(Fresh(Rt), dt))
  /\ lastEvent' = Event("frame")
  /\ UNCHANGED held
  /\ UNCHANGED scrollVars

PlayerLoaded ==
  /\ playerLoad = "pending"
  /\ \E skeleton \in BOOLEAN, group \in BOOLEAN, targets \in BOOLEAN,
        ranges \in {NoNamedRanges, AuthoredRanges}, x0 \in InitialXs :
       /\ (targets => group)
       /\ (ranges = AuthoredRanges <=> skeleton)
       /\ Become(IF variant = "edge"
                 THEN playerLoaded(Fresh(Rt), skeleton, ranges, group, targets, x0)
                 ELSE playerLoadedRunner(Fresh(Rt), skeleton, ranges, group,
                                         targets, x0))
  /\ lastEvent' = Event("load")
  /\ UNCHANGED held
  /\ UNCHANGED scrollVars

\* the import fails, or player.glb holds no mesh
PlayerLoadFailed ==
  /\ playerLoad = "pending"
  /\ playerLoad' = "failed"
  /\ UNCHANGED << variant, keyState, playerRoot, playerX, playerSkeleton,
                  namedRanges, playerAnimationGroup, groupHasTargets,
                  playerAnimatable, animationGroupObserver, currentPlayerState,
                  blockingAction, idleInitialized, lateralTarget,
                  activeScrollSpeed, groupPlaying, groupObservers,
                  skeletonPlaying, commands, lastEvent, held >>
  /\ UNCHANGED scrollVars

\* a non-looping playback of the animation group reaches its last frame
AnimationGroupEnd ==
  /\ ~mount.engineDisposed
  /\ groupPlaying.state # "none"
  /\ ~groupPlaying.loop
  /\ Become(groupEnded(Fresh(Rt)))
  /\ lastEvent' = Event("groupEnd")
  /\ UNCHANGED held
  /\ UNCHANGED scrollVars

\* a non-looping skeleton animation reaches its last frame
SkeletonAnimationEnd ==
  /\ ~mount.engineDisposed
  /\ skeletonPlaying.state # "none"
  /\ ~skeletonPlaying.loop
  /\ Become(skeletonEnded(Fresh(Rt)))
  /\ lastEvent' = Event("skeletonEnd")
  /\ UNCHANGED held
  /\ UNCHANGED scrollVars

Next ==
  \/ KeyDown
  \/ KeyUp
  \/ RenderFrame
  \/ PlayerLoaded
  \/ PlayerLoadFailed
  \/ AnimationGroupEnd
  \/ SkeletonAnimationEnd

Spec == Init /\ [][Next]_vars

\* the scene without teardown, with the engine delivering every end
\* notification that is due: a playback that has reached its last frame
\* notifies at the end of that frame
SpecLive ==
  /\ Init
  /\ [][Next]_vars
  /\ WF_vars(AnimationGroupEnd)
  /\ WF_vars(SkeletonAnimationEnd)

----------------------------------------------------------------------------
(* Actions of the scroll model                                             *)

\* the locomotion state machine writes activeScrollSpeed: every value the
\* table holds, 0 or baseScrollSpeed
ScrollSpeedSet ==
  /\ \E speed \in {0, baseScrollSpeed} :
       /\ speed # activeScrollSpeed
       /\ activeScrollSpeed' = speed
  /\ UNCHANGED << variant, keyState, playerLoad, playerRoot, playerX,
                  playerSkeleton, namedRanges, playerAnimationGroup,
                  groupHasTargets, playerAnimatable, animationGroupObserver,
                  currentPlayerState, blockingAction, idleInitialized,
                  lateralTarget, groupPlaying, groupObservers, skeletonPlaying,
                  commands, lastEvent, held >>
  /\ UNCHANGED scrollVars

\* Promise.all over b1..b10 resolves with at least one mesh
BuildingsLoaded ==
  /\ buildingsLoad = "pending"
  /\ \E rawSpacing \in BuildingRawSpacings :
       /\ buildingSegmentSpacing' = buildingSpacingFor(rawSpacing)
       /\ buildingSegments' = createBuildingSegments(buildingSpacingFor(rawSpacing))
  /\ buildingsLoad' = "done"
  /\ scrollObserver' = IF variant = "edge" THEN TRUE ELSE scrollObserver
  /\ UNCHANGED << groundSegments, groundTextureOffset, lastMovement, frameCount,
                  mount >>
  /\ UNCHANGED sceneVars

\* an import rejects, or the assets hold no renderable mesh
BuildingsLoadFailed ==
  /\ buildingsLoad = "pending"
  /\ buildingsLoad' = "failed"
  /\ UNCHANGED << scrollObserver, groundSegments, buildingSegments,
                  buildingSegmentSpacing, groundTextureOffset, lastMovement,
                  frameCount, mount >>
  /\ UNCHANGED sceneVars

\* the scroll observer's callback for one frame
scrollFrame(dt) ==
  LET movement == activeScrollSpeed * dt
  IN  IF movement = 0
      THEN UNCHANGED << groundSegments, buildingSegments, groundTextureOffset,
                        lastMovement >>
      ELSE
        /\ buildingSegments' =
             IF variant = "edge" \/ buildingSegmentSpacing > 0
             THEN advanceSegments(buildingSegments, buildingSegmentSpacing, movement)
             ELSE buildingSegments
        /\ groundSegments' =
             advanceSegments(groundSegments, groundSegmentSpacing(variant), movement)
        /\ groundTextureOffset' =
             advanceTexture(groundTextureOffset, groundSegmentSpacing(variant),
                            movement)
        /\ lastMovement' = movement

\* one rendered frame, as the scroll model sees it: the scroll observer runs
\* if it is registered on the scene
ScrollFrame ==
  /\ ~mount.engineDisposed
  /\ frameCount < MaxFrames
  /\ IF scrollObserver
     THEN \E dt \in ScrollDeltas : scrollFrame(dt)
     ELSE UNCHANGED << groundSegments, buildingSegments, groundTextureOffset,
                       lastMovement >>
  /\ frameCount' = frameCount + 1
  /\ UNCHANGED << buildingsLoad, scrollObserver, buildingSegmentSpacing, mount >>
  /\ UNCHANGED sceneVars

NextScroll ==
  \/ ScrollSpeedSet
  \/ BuildingsLoaded
  \/ BuildingsLoadFailed
  \/ ScrollFrame

SpecScroll == Init /\ [][NextScroll]_vars

----------------------------------------------------------------------------
(* Teardown: the cleanup returned by the effect                            *)

\* the part of the cleanup that acts on the player runtime
teardown(r) == StopOnce(r)

\* listeners and per-frame observers are removed, the animation in flight is
\* stopped, the engine is disposed.  The asset imports are not cancelled:
\* their callbacks can still run afterwards.
Teardown ==
  /\ ~mount.engineDisposed
  /\ Become(teardown(Fresh(Rt)))
  /\ lastEvent' = Event("teardown")
  /\ mount' = Unmounted
  /\ scrollObserver' = FALSE
  /\ UNCHANGED << held, buildingsLoad, groundSegments, buildingSegments,
                  buildingSegmentSpacing, groundTextureOffset, lastMovement,
                  frameCount >>

NextTeardown ==
  \/ Next
  \/ BuildingsLoaded
  \/ BuildingsLoadFailed
  \/ Teardown

SpecTeardown == Init /\ [][NextTeardown]_vars

----------------------------------------------------------------------------
(* The lateral controller of the edge scene on its own                     *)

\* frame delta times (ms) seen by the lateral update: a frame for which the
\* engine reports no elapsed time, a fast frame and two slow ones
LateralDeltas == {0, 100, 250, 500}
\* playerRoot.position.x after the load (thousandths)
LateralStarts == {0, -5, 55000, -70000}
\* arguments of setLateralTarget besides the player's x-position
LateralTargetValues == {Milli(lateralRange), -Milli(lateralRange)}

\* the edge scene with the player loaded and no animation source
InitLateral ==
  /\ variant = "edge"
  /\ keyState = NoKeys
  /\ playerLoad = "done"
  /\ playerRoot = TRUE
  /\ playerX \in LateralStarts
  /\ playerSkeleton = FALSE
  /\ namedRanges = NoNamedRanges
  /\ playerAnimationGroup = FALSE
  /\ groupHasTargets = FALSE
  /\ playerAnimatable = FALSE
  /\ animationGroupObserver = "null"
  /\ currentPlayerState = "Idle"
  /\ blockingAction = FALSE
  /\ idleInitialized = FALSE
  /\ lateralTarget = 0
  /\ activeScrollSpeed = 0
  /\ groupPlaying = NoPlayback
  /\ groupObservers = << >>
  /\ skeletonPlaying = NoPlayback
  /\ commands = << >>
  /\ lastEvent = [kind |-> "load", was |-> "Idle"]
  /\ held = NoKeys
  /\ InitScroll

\* the motion observer's call of updatePlayerLateralPosition for one frame
LateralFrame ==
  /\ \E dt \in LateralDeltas :
       Become(updatePlayerLateralPosition(Fresh(Rt), dt))
  /\ lastEvent' = Event("frame")
  /\ UNCHANGED held
  /\ UNCHANGED scrollVars

\* a movement evaluation or trigger writes the lateral target: a range bound
\* for a strafe, the player's x-position otherwise
LateralTargetSet ==
  /\ \E value \in LateralTargetValues \cup {playerX} :
       Become(setLateralTarget(Fresh(Rt), value))
  /\ lastEvent' = Event("keydown")
  /\ UNCHANGED held
  /\ UNCHANGED scrollVars

NextLateral ==
  \/ LateralFrame
  \/ LateralTargetSet

SpecLateral == InitLateral /\ [][NextLateral]_vars

----------------------------------------------------------------------------
(* Claims about the segment recycler (checked under SpecScroll)            *)

RECURSIVE MaxOf(_)
MaxOf(zs) ==
  IF Len(zs) = 1 THEN zs[1] ELSE Max(zs[1], MaxOf(Tail(zs)))

ZSet(zs) == {zs[i] : i \in 1..Len(zs)}

\* N members at pairwise distinct z, consecutive gaps of exactly S when sorted
EvenlySpaced(zs, spacing) ==
  /\ Cardinality(ZSet(zs)) = Len(zs)
  /\ ZSet(zs) = {MinOf(zs) + k * spacing : k \in 0..(Len(zs) - 1)}

\* C6: a ring that starts evenly spaced still has all its members at pairwise
\* distinct z with consecutive gaps of exactly S after any sequence of
\* advances by positive movements, movements larger than S included.
C6_RingStaysEvenlySpaced ==
  /\ Len(groundSegments) = Len(createGroundSegments(variant))
  /\ EvenlySpaced(groundSegments, groundSegmentSpacing(variant))
  /\ (buildingSegments # << >> =>
        /\ Len(buildingSegments) = buildingSegmentCount
        /\ EvenlySpaced(buildingSegments, buildingSegmentSpacing))

\* C7: after every advance-and-recycle step the maximum z of a ring does not
\* exceed S by more than that frame's movement.
C7_MaxWithinOvershoot ==
  lastMovement > 0 =>
    /\ MaxOf(groundSegments) <= groundSegmentSpacing(variant) + lastMovement
    /\ (buildingSegments # << >> =>
          MaxOf(buildingSegments) <= buildingSegmentSpacing + lastMovement)

----------------------------------------------------------------------------
(* Claims about the locomotion state machine (checked under Spec)          *)

Edge == variant = "edge"
Polled == variant = "polled"
AssetLoaded == playerAnimationGroup \/ playerSkeleton
EndKinds == {"groupEnd", "skeletonEnd"}
StrafeStates == {"Strafe_L", "Strafe_R"}

\* a blocking action is in flight
InFlight ==
  \/ Edge /\ blockingAction
  \/ Polled /\ currentPlayerState \in blockingStates

\* C1: while a blocking action is in flight, every non-forced transition
\* request (a press or release of any key, the jump and slide triggers, a
\* movement evaluation, a transition-to-idle, a frame, setPlayerState(x) for
\* any x) leaves currentPlayerState unchanged; the asset load is over by then,
\* so only the end of the playing animation is left to change it.
C1_BlockingSuppression ==
  InFlight =>
    /\ playerLoad = "done"
    /\ Edge =>
         /\ \A code \in KeyCodes :
              /\ handleKeyDown(Rt, code).currentPlayerState = currentPlayerState
              /\ handleKeyUp(Rt, code).currentPlayerState = currentPlayerState
         /\ \A dt \in MotionDeltas :
              renderFrame(Rt, dt).currentPlayerState = currentPlayerState
         /\ evaluateMovement(Rt).currentPlayerState = currentPlayerState
         /\ transitionToIdle(Rt).currentPlayerState = currentPlayerState
         /\ triggerSlide(Rt).currentPlayerState = currentPlayerState
         /\ triggerJump(Rt).currentPlayerState = currentPlayerState
    /\ Polled =>
         /\ \A code \in KeyCodes :
              /\ handleKeyDownRunner(Rt, code).currentPlayerState = currentPlayerState
              /\ handleKeyUpRunner(Rt, code).currentPlayerState = currentPlayerState
         /\ \A dt \in MotionDeltas :
              renderFrameRunner(Rt, dt).currentPlayerState = currentPlayerState
         /\ updateMovementState(Rt).currentPlayerState = currentPlayerState
         /\ \A x \in PlayerState :
              setPlayerState(Rt, x, FALSE).currentPlayerState = currentPlayerState

\* a key was pressed or released while Getup was blocking, and nothing moved
C1_Witness ==
  /\ Edge /\ blockingAction
  /\ currentPlayerState = "Getup"
  /\ lastEvent.kind \in {"keydown", "keyup"}
  /\ lastEvent.was = "Getup"
  /\ keyState.left

\* C2: after a jump trigger in non-blocking context with the asset loaded the
\* state is Jump; Jump is left only for Fall, Fall only for Getup; Fall is
\* entered only from Jump and Getup only from Fall; and blockingAction is
\* true in every state in which the current state is Jump, Fall or Getup.
C2_JumpChain ==
  [][Edge =>
       /\ (/\ ~blockingAction
           /\ AssetLoaded
           /\ lastEvent'.kind = "keydown"
           /\ Become(handleKeyDown(Fresh(Rt), "Space")))
            => currentPlayerState' = "Jump"
       /\ (currentPlayerState = "Jump" /\ currentPlayerState' # "Jump")
            => currentPlayerState' = "Fall"
       /\ (currentPlayerState = "Fall" /\ currentPlayerState' # "Fall")
            => currentPlayerState' = "Getup"
       /\ (currentPlayerState' = "Fall" /\ currentPlayerState # "Fall")
            => currentPlayerState = "Jump"
       /\ (currentPlayerState' = "Getup" /\ currentPlayerState # "Getup")
            => currentPlayerState = "Fall"
       /\ (currentPlayerState' \in {"Jump", "Fall", "Getup"}) => blockingAction'
  ]_vars

\* the chain has reached Getup, from Fall, by the end of the Fall clip
C2_Witness ==
  /\ Edge
  /\ currentPlayerState = "Getup"
  /\ blockingAction
  /\ lastEvent.kind \in EndKinds
  /\ lastEvent.was = "Fall"

\* what evaluateMovement selects from the held keys once nothing blocks
HeldChoice ==
  IF keyState.left /\ ~keyState.right THEN "Strafe_R"
  ELSE IF keyState.right /\ ~keyState.left THEN "Strafe_L"
  ELSE IF keyState.forward THEN "Run"
  ELSE "Run_Idle"

\* C3 as claimed: when Getup's completion fires, the next state is Run if
\* forward is held and Idle otherwise.
C3_Original ==
  (Edge /\ lastEvent.kind \in EndKinds /\ lastEvent.was = "Getup") =>
    currentPlayerState = IF keyState.forward THEN "Run" ELSE "Idle"

\* C3 as amended: when Getup's completion fires, the next state is the one
\* the held keys select: Strafe_R if left alone is held, Strafe_L if right
\* alone is held, else Run if forward is held, else Run_Idle (the clip whose
\* own completion leads to Idle).
C3_GetupResolvesFromKeys ==
  (Edge /\ lastEvent.kind \in EndKinds /\ lastEvent.was = "Getup") =>
    /\ currentPlayerState = HeldChoice
    /\ ~blockingAction

\* Getup has completed with no key held: the state is Run_Idle, not Idle
C3_Witness ==
  /\ Edge
  /\ lastEvent.kind \in EndKinds
  /\ lastEvent.was = "Getup"
  /\ keyState = NoKeys
  /\ currentPlayerState = "Run_Idle"

IdleStarts(cmds) ==
  Cardinality({i \in 1..Len(cmds) :
                 /\ cmds[i].op = "start"
                 /\ cmds[i].state = "Idle"
                 /\ cmds[i].loop})

\* C4: the handler that sets the idleInitialized latch (the load callback,
\* through ensureIdle) issues exactly one looping Idle start command, and no
\* frame issues one afterwards.
C4_IdleAutoStart ==
  Edge =>
    /\ (lastEvent.kind = "load" /\ idleInitialized) => IdleStarts(commands) = 1
    /\ (lastEvent.kind = "frame") => IdleStarts(commands) = 0

\* C5 as claimed: when a Slide completes, the state becomes Run and
\* blockingAction false, whatever keys are held.
C5_Original ==
  (Edge /\ lastEvent.kind \in EndKinds /\ lastEvent.was = "Slide") =>
    /\ currentPlayerState = "Run"
    /\ ~blockingAction

\* C5 as amended: when a Slide completes, blockingAction becomes false, the
\* slide flag is cleared, and the state becomes the one the held keys select:
\* Strafe_R if left alone is held, Strafe_L if right alone is held, else Run
\* if forward is held, else Run_Idle.
C5_SlideResolvesFromKeys ==
  (Edge /\ lastEvent.kind \in EndKinds /\ lastEvent.was = "Slide") =>
    /\ ~blockingAction
    /\ ~keyState.slide
    /\ currentPlayerState =
         IF keyState.left /\ ~keyState.right THEN "Strafe_R"
         ELSE IF keyState.right /\ ~keyState.left THEN "Strafe_L"
         ELSE IF keyState.forward THEN "Run"
         ELSE "Run_Idle"

\* a Slide has completed with no key held and resolved into Run_Idle
C5_Witness ==
  /\ Edge
  /\ lastEvent.kind \in EndKinds
  /\ lastEvent.was = "Slide"
  /\ ~keyState.forward /\ ~keyState.left /\ ~keyState.right
  /\ currentPlayerState = "Run_Idle"

\* C8 as claimed: once left is released with no other key held, the lateral
\* offset returns toward 0: the first frame after the release moves the
\* player strictly closer to 0 without crossing it.
C8_Original ==
  [][(/\ Edge /\ playerRoot /\ ~blockingAction
      /\ lastEvent.kind = "keyup" /\ lastEvent.was = "Strafe_R"
      /\ keyState = NoKeys
      /\ playerX > 0
      /\ lastEvent'.kind = "frame")
       => (playerX' < playerX /\ playerX' >= 0)
  ]_vars

\* C8 as amended: when left is released with no other key held and the player
\* displaced within the lateral range (where every frame keeps it), the lateral
\* target becomes the player's current offset and the offset does not move;
\* and as long as no key is held afterwards, no frame, animation end or
\* trigger moves the offset or the target: the player stays where the
\* release left it (so it never crosses to the opposite sign, and it does
\* not return to 0).
C8_ReleaseHoldsOffset ==
  [][(Edge /\ playerRoot) =>
       /\ (keyState.left /\ keyState' = NoKeys
           /\ Abs(playerX) <= Milli(lateralRange))
            => (lateralTarget' = playerX' /\ playerX' = playerX)
       /\ (keyState = NoKeys /\ keyState' = NoKeys /\ lateralTarget = playerX)
            => (playerX' = playerX /\ lateralTarget' = playerX')
  ]_vars

\* left has been released away from the centre, frames have run since, and
\* the player still stands at the offset of the release
C8_Witness ==
  /\ Edge /\ playerRoot
  /\ keyState = NoKeys
  /\ lastEvent.kind = "frame"
  /\ currentPlayerState \in {"Run_Idle", "Idle"}
  /\ playerX > 0
  /\ lateralTarget = playerX

\* C9 as claimed: a movement evaluation in non-blocking context with the
\* asset loaded selects Strafe_L when left alone is held, Strafe_R when
\* right alone is held, and no strafe state when both or neither are held.
C9_Original ==
  (Edge /\ ~blockingAction /\ AssetLoaded) =>
    LET selected == evaluateMovement(Rt).currentPlayerState
    IN  /\ (keyState.left /\ ~keyState.right) => selected = "Strafe_L"
        /\ (keyState.right /\ ~keyState.left) => selected = "Strafe_R"
        /\ (keyState.left <=> keyState.right) => selected \notin StrafeStates

\* C9 as amended: such an evaluation selects Strafe_R (and the lateral target
\* +lateralRange) when left alone is held, Strafe_L (and -lateralRange) when
\* right alone is held, and no strafe state when both or neither are held.
C9_StrafeSelection ==
  (Edge /\ ~blockingAction /\ AssetLoaded) =>
    LET after == evaluateMovement(Rt)
        selected == after.currentPlayerState
    IN  /\ (keyState.left /\ ~keyState.right)
             => (selected = "Strafe_R" /\ after.lateralTarget = Milli(lateralRange))
        /\ (keyState.right /\ ~keyState.left)
             => (selected = "Strafe_L" /\ after.lateralTarget = -Milli(lateralRange))
        /\ (keyState.left <=> keyState.right) => selected \notin StrafeStates

\* the left key went down on its own and the state machine went to Strafe_R
C9_Witness ==
  /\ Edge
  /\ lastEvent.kind = "keydown"
  /\ lastEvent.was = "Idle"
  /\ keyState.left /\ ~keyState.right
  /\ currentPlayerState = "Strafe_R"

\* C10: with the asset loaded, a press of forward in state Idle, not blocking
\* and with no strafe key held, gives state Run and scroll speed
\* baseScrollSpeed.
C10_ForwardFromIdle ==
  [][(/\ Edge /\ AssetLoaded /\ ~blockingAction
      /\ currentPlayerState = "Idle"
      /\ ~keyState.left /\ ~keyState.right
      /\ ~keyState.forward /\ keyState'.forward)
       => (currentPlayerState' = "Run" /\ activeScrollSpeed' = baseScrollSpeed)
  ]_vars

\* forward went down in Idle and the player runs at the base scroll speed
C10_Witness ==
  /\ Edge
  /\ lastEvent.kind = "keydown"
  /\ lastEvent.was = "Idle"
  /\ keyState.forward /\ ~keyState.left /\ ~keyState.right
  /\ currentPlayerState = "Run"
  /\ activeScrollSpeed = baseScrollSpeed

\* the state machine's own fields of a runtime are those of the current state
SameMachineState(r) ==
  /\ r.currentPlayerState = currentPlayerState
  /\ r.blockingAction = blockingAction
  /\ r.activeScrollSpeed = activeScrollSpeed

ContinuationOf(state) ==
  CASE state = "Run_Idle" -> "playIdle"
    [] state = "Slide"    -> "slideDone"
    [] state = "Jump"     -> "playFall"
    [] state = "Fall"     -> "playGetup"
    [] state = "Getup"    -> "evaluate"
    [] OTHER              -> "none"

Settled(r) == [r EXCEPT !.commands = << >>]

\* C13: from every reachable state, stopCurrentAnimation called twice leaves
\* the same state as called once: playerAnimatable null,
\* animationGroupObserver null, no end observer registered and no end
\* callback pending, and currentPlayerState, blockingAction and
\* activeScrollSpeed untouched by either call.
C13_StopIdempotent ==
  LET once  == StopOnce(Fresh(Rt))
      twice == StopOnce(once)
  IN  /\ Settled(twice) = Settled(once)
      /\ ~once.playerAnimatable
      /\ once.animationGroupObserver = "null"
      /\ once.groupObservers = << >>
      /\ once.skeletonPlaying = NoPlayback
      /\ SameMachineState(once)
      /\ SameMachineState(twice)

\* a handler has just stopped one playback and started a non-looping one,
\* whose end observer is registered: the next stop has an observer to detach
C13_Witness ==
  /\ animationGroupObserver # "null"
  /\ groupObservers # << >>
  /\ groupPlaying.state # "none"
  /\ \E i \in 1..Len(commands) : commands[i].op = "stop"

LoopingStates == {s \in PlayerState : animationRanges(s).loop}

\* C14: playState(s) called while currentPlayerState = s.  For a looping s
\* it issues no command and changes nothing but activeScrollSpeed, which it
\* sets to the table's value for s.  For a non-looping s (with an animation
\* source) it stops what is in flight and starts the clip of s again from
\* its first frame, not looping.
C14_SameStateReentry ==
  Edge =>
    LET s == currentPlayerState
        p == playState(Fresh(Rt), s, ContinuationOf(s))
        first == resolveFrames(Rt, s, animationRanges(s)).start
    IN  /\ LoopingStates = {"Idle", "Run", "Strafe_L", "Strafe_R"}
        /\ s \in LoopingStates =>
              /\ p.commands = << >>
              /\ p.activeScrollSpeed = animationRanges(s).scroll
              /\ p = [Fresh(Rt) EXCEPT !.activeScrollSpeed = animationRanges(s).scroll]
        /\ (s \notin LoopingStates /\ AssetLoaded) =>
              /\ p.currentPlayerState = s
              /\ Len(p.commands) >= 1
              /\ p.commands[Len(p.commands)].op = "start"
              /\ p.commands[Len(p.commands)].state = s
              /\ p.commands[Len(p.commands)].from = first
              /\ ~p.commands[Len(p.commands)].loop
              /\ \A i \in 1..(Len(p.commands) - 1) : p.commands[i].op = "stop"
              /\ (groupPlaying.state # "none" \/ skeletonPlaying.state # "none")
                   => Len(p.commands) >= 2

\* left is held in Strafe_R and forward goes down as well: the evaluation
\* asks for Strafe_R again and no command is issued
C14_Witness ==
  /\ Edge /\ AssetLoaded
  /\ lastEvent.kind = "keydown"
  /\ lastEvent.was = "Strafe_R"
  /\ currentPlayerState = "Strafe_R"
  /\ keyState.left /\ keyState.forward /\ ~keyState.right
  /\ commands = << >>
  /\ activeScrollSpeed = baseScrollSpeed

\* neither forward nor a single strafe key is held
NothingSelected(k) == ~k.forward /\ (k.left <=> k.right)

\* the step is a press or release of W, A or D, which calls evaluateMovement
MovementKeyStep ==
  /\ lastEvent'.kind \in {"keydown", "keyup"}
  /\ keyState' # keyState
  /\ keyState'.slide = keyState.slide

RunIdleStarts(cmds) ==
  Cardinality({i \in 1..Len(cmds) :
                 /\ cmds[i].op = "start"
                 /\ cmds[i].state = "Run_Idle"
                 /\ ~cmds[i].loop})

\* what a movement evaluation does in the current state when it finds
\* neither forward nor a single strafe key held
EvaluationToIdle ==
  (Edge /\ ~blockingAction /\ NothingSelected(keyState)) =>
    LET e == evaluateMovement(Fresh(Rt))
    IN  /\ currentPlayerState = "Idle" =>
             /\ e.currentPlayerState = "Idle"
             /\ e.commands = << >>
        /\ currentPlayerState = "Run_Idle" => e = Fresh(Rt)
        /\ currentPlayerState \notin {"Idle", "Run_Idle"} =>
             /\ e.currentPlayerState = "Run_Idle"
             /\ RunIdleStarts(e.commands) = 1
             /\ e.animationGroupObserver = "playIdle"
                  \/ e.skeletonPlaying.onEnd = "playIdle"

\* C15: a movement evaluation in non-blocking context that finds neither
\* forward nor a single strafe key held keeps Idle when the state is Idle,
\* changes nothing when the state is Run_Idle, and from any other state
\* starts Run_Idle once; the completion of Run_Idle gives Idle, and Idle is
\* kept by every frame and animation end that follows while no key event
\* arrives.
C15_TransitionToIdle ==
  /\ []EvaluationToIdle
  /\ [][Edge =>
          /\ (MovementKeyStep /\ ~blockingAction /\ NothingSelected(keyState')) =>
               /\ currentPlayerState = "Idle" => currentPlayerState' = "Idle"
               /\ currentPlayerState \notin {"Idle", "Run_Idle"} =>
                    /\ currentPlayerState' = "Run_Idle"
                    /\ RunIdleStarts(commands') = 1
          /\ (lastEvent'.kind \in EndKinds /\ currentPlayerState \in {"Slide", "Getup"}
              /\ NothingSelected(keyState')) =>
               /\ currentPlayerState' = "Run_Idle"
               /\ RunIdleStarts(commands') = 1
          /\ (lastEvent'.kind \in EndKinds /\ currentPlayerState = "Run_Idle") =>
               currentPlayerState' = "Idle"
          /\ (currentPlayerState = "Idle"
              /\ lastEvent'.kind \notin {"keydown", "keyup"}) =>
               currentPlayerState' = "Idle"
     ]_vars

\* Run_Idle has completed with no key held, and the state is Idle
C15_Witness ==
  /\ Edge
  /\ lastEvent.kind \in EndKinds
  /\ lastEvent.was = "Run_Idle"
  /\ keyState = NoKeys
  /\ currentPlayerState = "Idle"
  /\ ~blockingAction

KeyKinds == {"keydown", "keyup"}

\* C16 as claimed: each held-flag equals whether its key is down, and no
\* step other than a key press or release writes the input state.
C16_Original ==
  /\ [](Edge => keyState = held)
  /\ [][(Edge /\ lastEvent'.kind \notin KeyKinds) => keyState' = keyState]_vars

\* C16 as amended: forward, left and right equal whether their keys are down;
\* slide is true only while its key is down, and is false with the key still
\* down once a Slide has completed; the key handlers write the input state,
\* and the one write outside them is the completion callback of Slide, which
\* clears slide and nothing else.
C16_InputStateWrites ==
  /\ [](Edge =>
          /\ keyState.forward = held.forward
          /\ keyState.left = held.left
          /\ keyState.right = held.right
          /\ keyState.slide => held.slide)
  /\ [][Edge =>
          /\ (lastEvent'.kind \in EndKinds /\ currentPlayerState = "Slide")
               => keyState' = [keyState EXCEPT !.slide = FALSE]
          /\ (lastEvent'.kind \notin KeyKinds
              /\ ~(lastEvent'.kind \in EndKinds /\ currentPlayerState = "Slide"))
               => keyState' = keyState
     ]_vars

\* a Slide has completed while S was still down: the flag is off, the key on
C16_Witness ==
  /\ Edge
  /\ lastEvent.kind \in EndKinds
  /\ lastEvent.was = "Slide"
  /\ held.slide
  /\ ~keyState.slide

----------------------------------------------------------------------------
(* Claims about frames, asset loads and teardown                           *)

\* C17: in every frame of the edge scene in which activeScrollSpeed is not 0,
\* the ground segments and the road texture offset advance by that frame's
\* movement, also while the building ring is empty (assets still loading,
\* failed, or without meshes).
C17_GroundScrollsWithoutBuildings ==
  [][(Edge /\ frameCount' = frameCount + 1 /\ activeScrollSpeed # 0) =>
       \E dt \in ScrollDeltas :
         LET movement == activeScrollSpeed * dt
         IN  /\ groundSegments' =
                  advanceSegments(groundSegments, groundSegmentSpacing(variant),
                                  movement)
             /\ groundTextureOffset' =
                  advanceTexture(groundTextureOffset, groundSegmentSpacing(variant),
                                 movement)
  ]_vars

\* C18: after teardown nothing of the runtime is left registered or in
\* flight: no key listener, no motion observer, no scroll observer, no
\* animation end observer or end callback, no playback; whether the asset
\* loads complete before or after the teardown.
C18_NothingLeftAfterTeardown ==
  (Edge /\ mount.engineDisposed) =>
    /\ ~mount.keyListeners
    /\ ~mount.playerMotionObserver
    /\ ~scrollObserver
    /\ groupObservers = << >>
    /\ animationGroupObserver = "null"
    /\ ~playerAnimatable
    /\ groupPlaying = NoPlayback
    /\ skeletonPlaying = NoPlayback

\* the frame bounds playback of state s must use in the current state
ExpectedFrames(s) ==
  IF playerSkeleton /\ namedRanges[s].has
  THEN [start |-> namedRanges[s].from, end |-> namedRanges[s].to]
  ELSE [start |-> animationRanges(s).start, end |-> animationRanges(s).end]

StartCommands == {i \in 1..Len(commands) : commands[i].op = "start"}

\* C19: for every player state the frame bounds used for playback are the
\* skeleton's named range for the state when the skeleton is present and has
\* one, and the table's start/end otherwise (in both scenes); the loop flag
\* of the playback and the scroll speed applied with it are the table's,
\* whichever source supplied the bounds.
C19_FrameBounds ==
  /\ \A s \in PlayerState :
       resolveFrames(Rt, s, animationRanges(s)) = ExpectedFrames(s)
  /\ \A i \in StartCommands :
       /\ commands[i].from = ExpectedFrames(commands[i].state).start
       /\ commands[i].to = ExpectedFrames(commands[i].state).end
       /\ Edge => commands[i].loop = animationRanges(commands[i].state).loop
  /\ groupPlaying.state # "none" =>
       groupPlaying.loop = animationRanges(groupPlaying.state).loop
  /\ skeletonPlaying.state # "none" =>
       skeletonPlaying.loop = animationRanges(skeletonPlaying.state).loop
  /\ (Edge /\ StartCommands # {}) =>
       activeScrollSpeed = animationRanges(currentPlayerState).scroll

\* Jump was started on a skeleton that names a range for Jump: the playback
\* uses the named bounds, with the table's loop flag and scroll speed
C19_Witness ==
  /\ Edge
  /\ playerSkeleton
  /\ namedRanges["Jump"].has
  /\ currentPlayerState = "Jump"
  /\ activeScrollSpeed = baseScrollSpeed
  /\ \E i \in StartCommands :
       /\ commands[i].state = "Jump"
       /\ commands[i].from = namedRanges["Jump"].from
       /\ commands[i].from # animationRanges("Jump").start
       /\ ~commands[i].loop

\* C20: the static table has an entry for each of the nine player states,
\* and the entry's end frame is strictly greater than its start frame.
C20_TableRangesNonEmpty ==
  \A s \in PlayerState :
    /\ animationRanges(s) \in [start : Nat, end : Nat, loop : BOOLEAN, scroll : Nat]
    /\ animationRanges(s).end > animationRanges(s).start
    /\ s = currentPlayerState => animationRanges(s).end - animationRanges(s).start >= 1

\* Run is being played with the bounds of its table entry
C20_Witness ==
  /\ currentPlayerState = "Run"
  /\ \E i \in StartCommands :
       /\ commands[i].state = "Run"
       /\ commands[i].from = animationRanges("Run").start
       /\ commands[i].to = animationRanges("Run").end
       /\ commands[i].to > commands[i].from

----------------------------------------------------------------------------
(* Claims about the keyboard surface and the lateral controller            *)

\* the letter key the keyboard surface pairs with each arrow key
LetterOf(arrow) ==
  CASE arrow = "ArrowUp"    -> "KeyW"
    [] arrow = "ArrowLeft"  -> "KeyA"
    [] arrow = "ArrowRight" -> "KeyD"
    [] arrow = "ArrowDown"  -> "KeyS"

ArrowKeys == {"ArrowUp", "ArrowLeft", "ArrowRight", "ArrowDown"}

\* C21 as claimed: in the edge scene a press or release of an arrow key has
\* the effect of the same event on W, A, D or S, and a Space press triggers
\* Jump.
C21_Original ==
  Edge =>
    /\ \A arrow \in ArrowKeys :
         /\ handleKeyDown(Fresh(Rt), arrow) = handleKeyDown(Fresh(Rt), LetterOf(arrow))
         /\ handleKeyUp(Fresh(Rt), arrow) = handleKeyUp(Fresh(Rt), LetterOf(arrow))
    /\ handleKeyDown(Fresh(Rt), "Space") = triggerJump(Fresh(Rt))

\* C21 as amended: in the edge scene the keys handled are W, A, D, S and
\* Space; a press or release of an arrow key changes nothing (input state,
\* state machine, lateral target, playback); a Space press is the jump
\* trigger, giving Jump when nothing blocks and an animation source is
\* loaded; a Space release does nothing.  Arrow keys act like the letter
\* keys only in the polled scene, which in turn ignores Space.
C21_KeyboardSurface ==
  /\ Edge =>
       /\ \A arrow \in ArrowKeys :
            /\ handleKeyDown(Fresh(Rt), arrow) = Fresh(Rt)
            /\ handleKeyUp(Fresh(Rt), arrow) = Fresh(Rt)
       /\ handleKeyDown(Fresh(Rt), "Space") = triggerJump(Fresh(Rt))
       /\ (~blockingAction /\ AssetLoaded) =>
            handleKeyDown(Fresh(Rt), "Space").currentPlayerState = "Jump"
       /\ handleKeyUp(Fresh(Rt), "Space") = Fresh(Rt)
  /\ Polled =>
       /\ \A arrow \in ArrowKeys :
            /\ handleKeyDownRunner(Fresh(Rt), arrow)
                 = handleKeyDownRunner(Fresh(Rt), LetterOf(arrow))
            /\ handleKeyUpRunner(Fresh(Rt), arrow)
                 = handleKeyUpRunner(Fresh(Rt), LetterOf(arrow))
       /\ handleKeyDownRunner(Fresh(Rt), "Space") = Fresh(Rt)

\* Space went down while the player was running and Jump is in flight; the
\* release of ArrowUp would change nothing, the release of the held W would
C21_Witness ==
  /\ Edge /\ AssetLoaded
  /\ lastEvent.kind = "keydown"
  /\ lastEvent.was = "Run"
  /\ currentPlayerState = "Jump"
  /\ blockingAction
  /\ handleKeyUp(Fresh(Rt), "ArrowUp") = Fresh(Rt)
  /\ handleKeyUp(Fresh(Rt), "KeyW") # Fresh(Rt)

WithinLateralRange(x) == -Milli(lateralRange) <= x /\ x <= Milli(lateralRange)

\* C22: in the edge scene lateralState.target lies within
\* [-lateralRange, +lateralRange] in every reachable state, and after every
\* per-frame lateral update the player's x-coordinate lies within that range,
\* wherever the load put the player and however long the frame was.
C22_LateralBounds ==
  Edge =>
    /\ WithinLateralRange(lateralTarget)
    /\ (playerRoot /\ lastEvent.kind = "frame") => WithinLateralRange(playerX)
    /\ playerRoot =>
         \A dt \in MotionDeltas \cup {0} :
           WithinLateralRange(updatePlayerLateralPosition(Rt, dt).playerX)

\* the asset put the player beyond the range; the first frame has stepped it
\* toward the target 0 and the clamp has cut the result to +lateralRange
C22_Witness ==
  /\ Edge /\ playerRoot
  /\ lastEvent.kind = "frame"
  /\ lateralTarget = 0
  /\ playerX = Milli(lateralRange)

\* neither strafe key is held alone
NoSingleStrafe(k) == k.left <=> k.right

\* what a movement evaluation, a slide trigger and a jump trigger each make
\* of the current state
TargetSetters ==
  {evaluateMovement(Fresh(Rt)), triggerSlide(Fresh(Rt)), triggerJump(Fresh(Rt))}

\* C23 as claimed: a movement evaluation, slide trigger or jump trigger that
\* runs in non-blocking context with no single strafe key held sets the
\* lateral target to the player's current x-position, and the frames that
\* follow leave the x-position where it was.
C23_Original ==
  (Edge /\ playerRoot /\ ~blockingAction /\ NoSingleStrafe(keyState)) =>
    \A h \in TargetSetters :
      /\ h.lateralTarget = playerX
      /\ \A dt \in MotionDeltas : renderFrame(h, dt).playerX = playerX

\* C23 as amended: such an evaluation or trigger sets the lateral target to
\* the player's current x-position clamped to [-lateralRange, +lateralRange]
\* (to 0 while no player is loaded), never moving the player itself; whenever
\* the x-position lies within the range, as it does after every lateral
\* update, the target is the x-position itself and the frames that follow
\* leave the player where it is; a player the load has put outside the range
\* is given the nearer bound as target and the next frame moves it.
C23_TargetFollowsPlayer ==
  /\ [](( Edge /\ ~blockingAction /\ NoSingleStrafe(keyState)) =>
          \A h \in TargetSetters :
            /\ h.lateralTarget = lateralClamp(RootX(Rt))
            /\ h.playerX = playerX
            /\ (playerRoot /\ WithinLateralRange(playerX)) =>
                 /\ h.lateralTarget = playerX
                 /\ \A dt \in MotionDeltas \cup {0} :
                      renderFrame(h, dt).playerX = playerX
            /\ (playerRoot /\ ~WithinLateralRange(playerX)) =>
                 /\ h.lateralTarget # playerX
                 /\ \A dt \in MotionDeltas : renderFrame(h, dt).playerX # playerX)
  /\ [][(/\ Edge /\ playerRoot /\ lateralTarget = playerX
         /\ lastEvent'.kind \notin KeyKinds
         /\ NoSingleStrafe(keyState))
          => (playerX' = playerX /\ lateralTarget' = lateralTarget)
     ]_vars

\* left was released half way to +lateralRange with forward still held: the
\* evaluation has put the target on the player, and frames have run since
\* without moving it
C23_Witness ==
  /\ Edge /\ playerRoot
  /\ currentPlayerState = "Run"
  /\ lastEvent.kind = "frame"
  /\ keyState.forward /\ ~keyState.left /\ ~keyState.right
  /\ lateralTarget = playerX
  /\ playerX > 0 /\ playerX < Milli(lateralRange)

\* the forward, left and right held-flags
MovementFlags(k) == << k.forward, k.left, k.right >>

\* the runtime is as it was before the step, and the step issued no command
NothingRan ==
  /\ commands' = << >>
  /\ keyState' = keyState
  /\ currentPlayerState' = currentPlayerState
  /\ blockingAction' = blockingAction
  /\ activeScrollSpeed' = activeScrollSpeed
  /\ lateralTarget' = lateralTarget
  /\ playerX' = playerX
  /\ groupPlaying' = groupPlaying
  /\ skeletonPlaying' = skeletonPlaying
  /\ groupObservers' = groupObservers

----------------------------------------------------------------------------
(* Claims about the rings at initialization (checked under SpecScroll)     *)

\* member i (counted from 0) of the ring sits at base - i * spacing
RingStartsAt(zs, base, spacing) ==
  \A i \in 1..Len(zs) : zs[i] = base - (i - 1) * spacing

\* the step in which the building ring is created
BuildingRingCreated == buildingsLoad = "pending" /\ buildingsLoad' = "done"

\* C25 as claimed: immediately after initialization segment i of the ground
\* ring and of the building ring of the edge scene sits at z = -i*S, S the
\* ring's spacing.
C25_Original ==
  /\ []((Edge /\ lastMovement = 0) =>
          RingStartsAt(groundSegments, 0, groundSegmentSpacing(variant)))
  /\ [][(Edge /\ BuildingRingCreated) =>
          RingStartsAt(buildingSegments', 0, buildingSegmentSpacing')]_vars

\* C25 as amended: immediately after its creation segment i of the building
\* ring sits at z = -i*S; segment i of the edge scene's ground ring sits at
\* z = groundBaseOffset.z - i*S = 30 - i*S (three segments, S = 2720) until
\* the first movement; the ground ring of the polled scene starts at -i*S.
C25_InitialRingPositions ==
  /\ []((Edge /\ lastMovement = 0) =>
          /\ Len(groundSegments) = groundSegmentCountCanvas
          /\ RingStartsAt(groundSegments, Milli(groundBaseOffsetZ),
                          groundSegmentSpacing(variant)))
  /\ []((Polled /\ lastMovement = 0) =>
          /\ Len(groundSegments) = groundSegmentCountRunner
          /\ RingStartsAt(groundSegments, 0, groundSegmentSpacing(variant)))
  /\ [][BuildingRingCreated =>
          /\ Len(buildingSegments') = buildingSegmentCount
          /\ buildingSegmentSpacing' > 0
          /\ RingStartsAt(buildingSegments', 0, buildingSegmentSpacing')]_vars

\* the building ring has been created while the ground ring has not moved
\* yet: the first ground segment sits at 30, the second building segment one
\* spacing behind the origin
C25_Witness ==
  /\ Edge
  /\ buildingsLoad = "done"
  /\ lastMovement = 0
  /\ groundSegments[1] = Milli(groundBaseOffsetZ)
  /\ Len(buildingSegments) = buildingSegmentCount
  /\ buildingSegments[2] = -buildingSegmentSpacing

----------------------------------------------------------------------------
(* Claims about the state observable between events (checked under Spec)   *)

StationaryStates == {"Idle", "Run_Idle"}

\* C26: in every state of the edge scene observable between events,
\* activeScrollSpeed is the table's scroll value for currentPlayerState: 0
\* while the state is Idle or Run_Idle, baseScrollSpeed while it is Run,
\* Strafe_L, Strafe_R, Slide, Jump, Fall or Getup.
C26_ScrollSpeedOfState ==
  Edge =>
    /\ activeScrollSpeed = animationRanges(currentPlayerState).scroll
    /\ currentPlayerState \in StationaryStates => activeScrollSpeed = 0
    /\ currentPlayerState \in PlayerState \ StationaryStates =>
         activeScrollSpeed = baseScrollSpeed

\* Run_Idle was entered from a moving state and the scroll has stopped with it
C26_Witness ==
  /\ Edge
  /\ currentPlayerState = "Run_Idle"
  /\ lastEvent.was \in {"Run", "Strafe_L", "Strafe_R", "Slide", "Getup"}
  /\ activeScrollSpeed = 0
  /\ StartCommands # {}

\* C27: in every state of the edge scene observable between events,
\* blockingAction is true if and only if currentPlayerState is one of Slide,
\* Jump, Fall, Getup.
C27_BlockingIffBlockingState ==
  Edge => (blockingAction <=> currentPlayerState \in blockingStates)

\* a Slide has completed into Run_Idle: a non-looping state that does not block
C27_Witness ==
  /\ Edge
  /\ lastEvent.kind \in EndKinds
  /\ lastEvent.was = "Slide"
  /\ currentPlayerState = "Run_Idle"
  /\ ~blockingAction
  /\ (groupPlaying.state = "Run_Idle" \/ skeletonPlaying.state = "Run_Idle")

\* the state a movement evaluation selects from held-flags k
ChoiceOf(k) ==
  IF k.left /\ ~k.right THEN "Strafe_R"
  ELSE IF k.right /\ ~k.left THEN "Strafe_L"
  ELSE IF k.forward THEN "Run"
  ELSE "Run_Idle"

\* the end of the playback in flight, on whichever path it runs
Completed(r) ==
  IF r.groupPlaying.state # "none" THEN groupEnded(r) ELSE skeletonEnded(r)

\* the clip of the current state is playing, so that it can complete
CurrentClipPlays ==
  \/ groupPlaying.state = currentPlayerState
  \/ skeletonPlaying.state = currentPlayerState

ChainEnds == {"Slide", "Getup"}

\* C28: while a blocking action of the edge scene is in flight, presses and
\* releases of forward, left and right are recorded in the input state and
\* change neither the state nor the playback; the state entered when Slide
\* or Getup completes is the one selected by the flags held at that moment,
\* whatever they were at trigger time: Strafe_R for left alone, Strafe_L for
\* right alone, else Run if forward is held, else Run_Idle.
C28_KeysTakeEffectAtCompletion ==
  /\ []((Edge /\ blockingAction /\ currentPlayerState \in ChainEnds
         /\ CurrentClipPlays) =>
          \A f \in BOOLEAN, l \in BOOLEAN, d \in BOOLEAN :
            LET k == [keyState EXCEPT !.forward = f, !.left = l, !.right = d]
                c == Completed([Fresh(Rt) EXCEPT !.keyState = k])
            IN  /\ c.currentPlayerState = ChoiceOf(k)
                /\ ~c.blockingAction
                /\ MovementFlags(c.keyState) = MovementFlags(k))
  /\ [][Edge =>
          /\ (blockingAction /\ lastEvent'.kind \in KeyKinds) =>
               /\ MovementFlags(keyState') = MovementFlags(held')
               /\ currentPlayerState' = currentPlayerState
               /\ blockingAction'
               /\ commands' = << >>
          /\ (lastEvent'.kind \in EndKinds /\ currentPlayerState \in ChainEnds) =>
               /\ MovementFlags(keyState') = MovementFlags(keyState)
               /\ currentPlayerState' = ChoiceOf(keyState)
     ]_vars

\* Getup has completed with right alone held: the state entered is
\* Strafe_L, with the lateral target at -lateralRange
C28_Witness ==
  /\ Edge
  /\ lastEvent.kind \in EndKinds
  /\ lastEvent.was = "Getup"
  /\ keyState.right /\ ~keyState.left
  /\ currentPlayerState = "Strafe_L"
  /\ ~blockingAction
  /\ lateralTarget = -Milli(lateralRange)

----------------------------------------------------------------------------
(* Claims about the lateral update (checked under SpecLateral)             *)

\* the speed the update uses toward target t
SpeedToward(t) == IF t = 0 THEN lateralReturnSpeed ELSE lateralSpeed

\* how far x lies outside [-lateralRange, +lateralRange]
OutsideBy(x) == Max(0, Abs(x) - Milli(lateralRange))

\* the x-coordinate after one lateral update of dt milliseconds
AfterFrame(dt) == updatePlayerLateralPosition(Rt, dt).playerX

\* C29 as claimed: in every per-frame lateral update the x-coordinate moves
\* toward the target by at most speed*dt, never passes the target, and the
\* distance |target - x| never increases.
C29_Original ==
  (Edge /\ playerRoot) =>
    \A dt \in LateralDeltas :
      /\ Abs(AfterFrame(dt) - playerX) <= SpeedToward(lateralTarget) * dt
      /\ Sign(AfterFrame(dt) - playerX) \in {0, Sign(lateralTarget - playerX)}
      /\ Sign(lateralTarget - AfterFrame(dt)) \in {0, Sign(lateralTarget - playerX)}
      /\ Abs(lateralTarget - AfterFrame(dt)) <= Abs(lateralTarget - playerX)

\* C29 as amended: in every per-frame lateral update the x-coordinate moves
\* toward the target (or stays), never passes it, and the distance
\* |target - x| never increases.  The move is min(|target - x|, speed*dt)
\* for a player inside the range that is 0.01 or more from the target; a
\* distance below 0.01 is closed at once whatever dt is, a frame of dt = 0
\* included; a player the load has put outside the range moves by at most
\* the larger of speed*dt and its distance to the range.
C29_RateLimitedApproach ==
  /\ []((Edge /\ playerRoot) =>
          \A dt \in LateralDeltas :
            LET limit == SpeedToward(lateralTarget) * dt
                dist  == Abs(lateralTarget - playerX)
                moved == Abs(AfterFrame(dt) - playerX)
            IN  /\ Sign(AfterFrame(dt) - playerX) \in {0, Sign(lateralTarget - playerX)}
                /\ Sign(lateralTarget - AfterFrame(dt)) \in {0, Sign(lateralTarget - playerX)}
                /\ Abs(lateralTarget - AfterFrame(dt)) <= dist
                /\ dist < SnapEpsilon => AfterFrame(dt) = lateralTarget
                /\ (dist >= SnapEpsilon /\ WithinLateralRange(playerX)) =>
                     moved = Min(dist, limit)
                /\ dist >= SnapEpsilon => moved <= Max(limit, OutsideBy(playerX)))
  /\ [][(Edge /\ playerRoot /\ lastEvent'.kind = "frame") =>
          /\ lateralTarget' = lateralTarget
          /\ Sign(playerX' - playerX) \in {0, Sign(lateralTarget - playerX)}
          /\ Sign(lateralTarget - playerX') \in {0, Sign(lateralTarget - playerX)}
          /\ Abs(lateralTarget - playerX') <= Abs(lateralTarget - playerX)
     ]_vars

\* a frame has run on a player loaded at x = -70 with the target 0: the
\* player stands at -lateralRange, 30 units from where it was
C29_Witness ==
  /\ Edge /\ playerRoot
  /\ lastEvent.kind = "frame"
  /\ lateralTarget = 0
  /\ playerX = -Milli(lateralRange)

CeilDiv(a, b) == (a + b - 1) \div b

\* ceil(|target - x| / (speed*dt)) + 1
FrameBound(dt) ==
  CeilDiv(Abs(lateralTarget - playerX), SpeedToward(lateralTarget) * dt) + 1

\* frames of dt milliseconds until the x-coordinate equals the target; one
\* more than the frames allowed if it does not within them
RECURSIVE FramesToTarget(_, _, _)
FramesToTarget(r, dt, allowed) ==
  IF r.playerX = r.lateralTarget THEN 0
  ELSE IF allowed = 0 THEN 1
  ELSE 1 + FramesToTarget(updatePlayerLateralPosition(r, dt), dt, allowed - 1)

PositiveDeltas == {dt \in LateralDeltas : dt > 0}

\* C30: with the lateral target fixed and frames of dt > 0, the x-coordinate
\* equals the target after at most ceil(|target - x| / (speed*dt)) + 1
\* frames, every such frame before that bringing it strictly closer, and
\* once equal it stays equal in every later frame, of any dt.
C30_ReachesTarget ==
  /\ []((Edge /\ playerRoot) =>
          /\ \A dt \in PositiveDeltas :
               /\ FramesToTarget(Rt, dt, FrameBound(dt)) <= FrameBound(dt)
               /\ playerX # lateralTarget =>
                    Abs(lateralTarget - AfterFrame(dt)) < Abs(lateralTarget - playerX)
          /\ playerX = lateralTarget =>
               \A dt \in LateralDeltas : AfterFrame(dt) = lateralTarget)
  /\ [][(Edge /\ playerRoot /\ playerX = lateralTarget /\ lastEvent'.kind = "frame")
          => (playerX' = playerX /\ lateralTarget' = lateralTarget)]_vars

\* the target was put on +lateralRange and frames have walked the player
\* onto it
C30_Witness ==
  /\ Edge /\ playerRoot
  /\ lastEvent.kind = "frame"
  /\ lateralTarget = Milli(lateralRange)
  /\ playerX = lateralTarget

----------------------------------------------------------------------------
(* Claims about progress (checked under SpecLive)                          *)

\* C31: in the edge scene, with every due end notification delivered and no
\* teardown, whenever blockingAction becomes true it eventually becomes
\* false again, whatever key events arrive meanwhile.
C31_BlockingEventuallyEnds ==
  (Edge /\ blockingAction) ~> ~blockingAction

\* C32: in the polled scene, with every due end notification delivered,
\* whenever currentPlayerState enters a blocking state once the player root
\* is loaded it eventually leaves it, whichever of the animation group, the
\* skeleton and the started animatable are present.
C32_BlockingStateEventuallyLeft ==
  (Polled /\ playerRoot /\ currentPlayerState \in blockingStates)
    ~> (currentPlayerState \notin blockingStates)

----------------------------------------------------------------------------
(* Claims about the polled scene's scroll speed and the edge scene's keys  *)

\* C33: in the polled scene, in every state observable between frames,
\* activeScrollSpeed is the table's scroll value of currentPlayerState, also
\* after a transition taken on the bookkeeping-only path (whenever the state
\* is Run, activeScrollSpeed is baseScrollSpeed).
C33_ScrollSpeedOfStatePolled ==
  Polled => activeScrollSpeed = animationRanges(currentPlayerState).scroll

\* C34: in the edge scene, in every state observable between events where the
\* character asset is loaded and blockingAction is false, currentPlayerState
\* agrees with the held keys: a strafe state if exactly one of left and right
\* is held, otherwise Run if forward is held, otherwise Idle or Run_Idle;
\* keys pressed before the load completes and still held afterwards included.
C34_StateAgreesWithHeldKeys ==
  (Edge /\ AssetLoaded /\ ~blockingAction) =>
    IF keyState.left # keyState.right THEN currentPlayerState \in StrafeStates
    ELSE IF keyState.forward THEN currentPlayerState = "Run"
    ELSE currentPlayerState \in {"Idle", "Run_Idle"}

\* a key event or a frame, as opposed to the load and the end notifications
InputKinds == {"keydown", "keyup", "frame"}

\* what a key event or frame must leave alone before an animation source is
\* there: no playback command, blockingAction false, activeScrollSpeed 0
NoPlaybackEffect ==
  /\ commands' = << >>
  /\ ~blockingAction'
  /\ activeScrollSpeed' = 0

\* C35 as claimed: in the edge scene, before the character asset (animation
\* group or skeleton) is available, no key event and no frame issues a
\* playback command, makes blockingAction true, makes activeScrollSpeed
\* nonzero or writes the player position.
C35_Original ==
  [][(Edge /\ ~AssetLoaded /\ lastEvent'.kind \in InputKinds) =>
       (NoPlaybackEffect /\ playerX' = playerX)]_vars

\* C35 as amended: in the edge scene, before an animation group or skeleton
\* is available, blockingAction is false and activeScrollSpeed is 0, and no
\* key event and no frame issues a playback command or changes either; the
\* player position is left alone as long as the player root is not loaded (a
\* root loaded without animation group and skeleton is moved by frames).
C35_NoPlaybackBeforeAsset ==
  /\ []((Edge /\ ~AssetLoaded) => (~blockingAction /\ activeScrollSpeed = 0))
  /\ [][(Edge /\ ~AssetLoaded /\ lastEvent'.kind \in InputKinds) =>
          (NoPlaybackEffect /\ (~playerRoot => playerX' = playerX))]_vars

\* the left and slide keys went down and a frame was rendered while the
\* import was still pending: the target moved, the position did not
C35_Witness ==
  /\ Edge /\ ~AssetLoaded /\ ~playerRoot
  /\ lastEvent.kind = "frame"
  /\ keyState.left /\ keyState.slide
  /\ lateralTarget = Milli(lateralRange)
  /\ playerX = 0
  /\ currentPlayerState = "Idle"

\* C36 as claimed: in the edge scene, while blockingAction is true no key
\* press or release and no trigger changes lateralState.target; from the
\* trigger of the blocking action until the chain's completion the target is
\* the player's x at the moment of the trigger.
C36_Original ==
  [][Edge =>
       /\ (blockingAction /\ lastEvent'.kind \in KeyKinds) =>
            lateralTarget' = lateralTarget
       /\ (~blockingAction /\ blockingAction') => lateralTarget' = playerX
       /\ (blockingAction /\ blockingAction') => lateralTarget' = lateralTarget
  ]_vars

\* C36 as amended: while blockingAction is true no key press or release, no
\* trigger, no movement evaluation, no frame and no end of a clip inside the
\* chain changes lateralState.target; it stays at the value set when the
\* blocking action was triggered, which is the player's x at that moment
\* clamped to [-lateralRange, +lateralRange], until the chain's completion
\* re-evaluates movement.
C36_TargetFrozenWhileBlocking ==
  /\ []((Edge /\ blockingAction) =>
          \A h \in TargetSetters : h.lateralTarget = lateralTarget)
  /\ [][Edge =>
          /\ (blockingAction /\ lastEvent'.kind \in KeyKinds) =>
               lateralTarget' = lateralTarget
          /\ (~blockingAction /\ blockingAction') =>
               lateralTarget' = lateralClamp(playerX)
          /\ (blockingAction /\ blockingAction') => lateralTarget' = lateralTarget
     ]_vars

\* left went down during a blocking action that was triggered with the player
\* short of the bound: the target is still the x of the trigger
C36_Witness ==
  /\ Edge /\ blockingAction
  /\ lastEvent.kind = "keydown"
  /\ lastEvent.was \in blockingStates
  /\ keyState.left /\ ~keyState.right
  /\ lateralTarget = playerX
  /\ lateralTarget # Milli(lateralRange)

----------------------------------------------------------------------------
(* Claim about the end observers of the animation group                    *)

\* Slide, Jump, Fall, Getup and Run_Idle
NonLoopingStates == PlayerState \ LoopingStates

\* the group is playing the non-looping clip of the current state
NonLoopingClipInFlight ==
  /\ currentPlayerState \in NonLoopingStates
  /\ groupPlaying.state = currentPlayerState
  /\ ~groupPlaying.loop

\* C37: in the edge scene, in every state observable between events, at most
\* one end observer is registered on the animation group; one is registered
\* only while a non-looping clip (Slide, Jump, Fall, Getup, Run_Idle) is in
\* flight, none while a looping state is current, and animationGroupObserver
\* is non-null exactly when one is registered.
C37_ObserverRegistry ==
  Edge =>
    /\ Len(groupObservers) <= 1
    /\ groupObservers # << >> => NonLoopingClipInFlight
    /\ currentPlayerState \in LoopingStates => groupObservers = << >>
    /\ (animationGroupObserver # "null") <=> (groupObservers # << >>)

====
